---- MODULE Spec2Model ----
(***************************************************************************)
(* A model of the contract-filling skill: field semantics and completion   *)
(* tracking (contracts/base_config.py), the name canonicalizer and the     *)
(* update command (scripts/update_state.py), the type router               *)
(* (contracts/router.py) and the template renderer and its command         *)
(* (scripts/fill_contract.py).                                             *)
(*                                                                         *)
(* Text is a sequence of characters.  A character is written as a short    *)
(* ASCII name: "a", "SP" (a space), "BOX" (the glyph ☐), "TICK" (☑), and   *)
(* the pinyin or the code point of a Chinese character ("shi" for 是).  A Python value is a   *)
(* record: PyBool(b) for True/False, PyStr(s) for a string.                *)
(***************************************************************************)
EXTENDS Integers, Sequences, FiniteSets, TLC

VARIABLES
    tk_groups,      \* tracker: placeholder_groups, in declaration order
    tk_values,      \* tracker: field_values
    tk_out,         \* tracker: the last result computed
    rt_input,       \* router: user_input
    rt_out,         \* router: the last result computed
    cn_updates,     \* canonicalizer: updates, a dict in insertion order
    cn_valid,       \* canonicalizer: valid_fields
    cn_out,         \* canonicalizer: the last result computed
    rd_template,    \* renderer: the template document
    rd_values,      \* renderer: field_values
    rd_out,         \* renderer: the last result computed
    se_state,       \* session: the snapshot file written by init_state
    se_config,      \* session: the config module of the contract type
    se_template,    \* session: the template document at template_path
    se_pc,          \* session: "ready" for a command, or "exited"
    se_args,        \* session: the command line of the last command
    se_exit,        \* session: exit code, output and document written
    am_input,       \* formatter: amount_str
    am_out          \* formatter: the last result computed

tkVars == <<tk_groups, tk_values, tk_out>>
rtVars == <<rt_input, rt_out>>
cnVars == <<cn_updates, cn_valid, cn_out>>
rdVars == <<rd_template, rd_values, rd_out>>
seVars == <<se_state, se_config, se_template, se_pc, se_args, se_exit>>
amVars == <<am_input, am_out>>
vars == <<tkVars, rtVars, cnVars, rdVars, seVars, amVars>>

tkOthers == <<rtVars, cnVars, rdVars, seVars, amVars>>
rtOthers == <<tkVars, cnVars, rdVars, seVars, amVars>>
cnOthers == <<tkVars, rtVars, rdVars, seVars, amVars>>
rdOthers == <<tkVars, rtVars, cnVars, seVars, amVars>>
seOthers == <<tkVars, rtVars, cnVars, rdVars, amVars>>
amOthers == <<tkVars, rtVars, cnVars, rdVars, seVars>>

-----------------------------------------------------------------------------
(* Python values and text helpers                                          *)

PyBool(b) == [t |-> "bool", b |-> b, s |-> <<>>]
PyStr(s) == [t |-> "str", b |-> FALSE, s |-> s]
None == "None"

BOX == "BOX"
TICK == "TICK"

\* the characters str.strip() removes
Whitespace == {"SP"}

RECURSIVE lstrip(_)
lstrip(s) == IF s # <<>> /\ Head(s) \in Whitespace THEN lstrip(Tail(s)) ELSE s

RECURSIVE rstrip(_)
rstrip(s) ==
    IF s # <<>> /\ s[Len(s)] \in Whitespace
    THEN rstrip(SubSeq(s, 1, Len(s) - 1))
    ELSE s

strip(s) == rstrip(lstrip(s))

\* bool(val): Python truthiness of a stored value
Truthy(val) == IF val.t = "bool" THEN val.b ELSE val.s # <<>>

\* str(val)
str(val) ==
    IF val.t = "str" THEN val.s
    ELSE IF val.b THEN <<"T", "r", "u", "e">> ELSE <<"F", "a", "l", "s", "e">>

startswith(s, c) == s # <<>> /\ s[1] = c

RECURSIVE Flatten(_)
Flatten(ss) == IF ss = <<>> THEN <<>> ELSE Head(ss) \o Flatten(Tail(ss))

Range(q) == {q[i] : i \in 1..Len(q)}

\* sum(1 for f in q if P(f))
CountIf(q, P(_)) == Cardinality({i \in 1..Len(q) : P(q[i])})

\* [f for f in q if P(f)]
Filter(q, P(_)) == SelectSeq(q, P)

-----------------------------------------------------------------------------
(* Field semantics: base_config.py                                         *)

\* (True, "true", "True", "☑", "checked", "是", "选中", "yes", "Yes", "YES", "1")
CHECKBOX_CHECKED_VALUES ==
    { PyBool(TRUE),
      PyStr(<<"t", "r", "u", "e">>), PyStr(<<"T", "r", "u", "e">>),
      PyStr(<<TICK>>),
      PyStr(<<"c", "h", "e", "c", "k", "e", "d">>),
      PyStr(<<"shi">>), PyStr(<<"xuan", "zhong">>),
      PyStr(<<"y", "e", "s">>), PyStr(<<"Y", "e", "s">>), PyStr(<<"Y", "E", "S">>),
      PyStr(<<"1">>) }

\* (False, "false", "False", "☐", "unchecked", "否", "不选", "no", "No", "NO", "0")
CHECKBOX_UNCHECKED_VALUES ==
    { PyBool(FALSE),
      PyStr(<<"f", "a", "l", "s", "e">>), PyStr(<<"F", "a", "l", "s", "e">>),
      PyStr(<<BOX>>),
      PyStr(<<"u", "n", "c", "h", "e", "c", "k", "e", "d">>),
      PyStr(<<"fou">>), PyStr(<<"bu", "xuan">>),
      PyStr(<<"n", "o">>), PyStr(<<"N", "o">>), PyStr(<<"N", "O">>),
      PyStr(<<"0">>) }

CHECKBOX_VALID_VALUES == CHECKBOX_CHECKED_VALUES \cup CHECKBOX_UNCHECKED_VALUES

is_checkbox_checked(val) == val \in CHECKBOX_CHECKED_VALUES

\* a variant that takes a checkbox as filled only by a canonical value
is_field_filled_CanonicalOnly(field_name, field_values) ==
    IF field_name \notin DOMAIN field_values THEN FALSE
    ELSE LET val == field_values[field_name] IN
         IF startswith(field_name, BOX)
         THEN val \in CHECKBOX_VALID_VALUES
         ELSE IF val.t = "bool" THEN FALSE
              ELSE Truthy(val) /\ strip(str(val)) # <<>>

is_field_filled(field_name, field_values) ==
    IF field_name \notin DOMAIN field_values THEN FALSE
    ELSE LET val == field_values[field_name] IN
         IF startswith(field_name, BOX)
         THEN \/ val \in CHECKBOX_VALID_VALUES
              \/ val.t = "str" /\ strip(val.s) # <<>>
         ELSE IF val.t = "bool" THEN FALSE
              ELSE Truthy(val) /\ strip(str(val)) # <<>>

-----------------------------------------------------------------------------
(* Completion tracker: base_config.py                                      *)
(* placeholder_groups is a dict in insertion order: a sequence of          *)
(* [name, priority, fields].                                               *)

get_all_fields(placeholder_groups) ==
    Flatten([i \in 1..Len(placeholder_groups) |-> placeholder_groups[i].fields])

\* round(x, 1) of the double x = (2q + 1) / 2000 * 100, which lies half way
\* between the tenths q and q + 1: the q for which the double is the larger
\* of the two and Python rounds up
HalfRoundsUp ==
    { 0, 3, 6, 7, 8, 10, 13, 14, 15, 16, 17, 20, 23, 24, 27, 28, 33, 34,
      37, 38, 39, 41, 44, 46, 47, 48, 49, 50, 54, 56, 57, 58, 61, 64, 65,
      66, 67, 68, 69, 77, 79, 80, 81, 84, 85, 87, 91, 95, 96, 97, 99, 100,
      101, 106, 107, 110, 111, 114, 115, 116, 117, 121, 125, 126, 127, 129,
      130, 131, 133, 134, 135, 136, 137, 138, 139, 140, 147, 151, 155, 156,
      157, 159, 160, 161, 163, 165, 166, 167, 168, 169, 170, 171, 177, 180,
      183, 185, 187, 188, 190, 193, 195, 196, 197, 198, 199, 200, 201, 207,
      210, 215, 217, 218, 220, 223, 225, 226, 227, 228, 230, 231, 233, 237,
      240, 245, 247, 248, 250, 253, 255, 256, 257, 258, 260, 261, 263, 264,
      265, 266, 267, 268, 269, 270, 271, 272, 273, 274, 275, 276, 277, 278,
      279, 280, 297, 305, 307, 308, 310, 313, 315, 317, 318, 323, 324, 325,
      327, 328, 329, 330, 333, 334, 335, 336, 337, 338, 339, 340, 341, 343,
      347, 353, 357, 358, 363, 367, 368, 369, 373, 374, 377, 378, 379, 383,
      384, 385, 387, 388, 389, 390, 393, 394, 395, 397, 398, 399, 400, 401,
      403, 404, 405, 407, 417, 418, 423, 427, 428, 429, 433, 434, 437, 438,
      439, 443, 444, 447, 448, 449, 450, 453, 454, 455, 457, 458, 459, 460,
      461, 463, 464, 465, 466, 467, 468, 477, 478, 483, 487, 488, 493, 494,
      497, 498, 499, 527, 537, 543, 547, 548, 553, 554, 557, 558, 559, 563,
      564, 567, 568, 569, 573, 574, 575, 577, 578, 579, 580, 583, 584, 585,
      586, 587, 588, 589, 590, 591, 593, 594, 595, 596, 597, 598, 599, 600,
      601, 603, 604, 605, 606, 607, 608, 609, 610, 611, 612, 613, 614, 615,
      616, 617, 618, 619, 620, 621, 622, 623, 624, 644, 647, 649, 654, 657,
      659, 664, 667, 669, 671, 674, 676, 677, 679, 681, 684, 686, 687, 689,
      691, 694, 696, 697, 699, 701, 704, 706, 707, 708, 709, 711, 713, 714,
      716, 717, 718, 719, 721, 723, 724, 726, 727, 728, 729, 731, 733, 734,
      735, 736, 737, 738, 739, 740, 741, 743, 744, 745, 746, 747, 748, 749,
      757, 767, 769, 774, 777, 779, 784, 787, 789, 794, 796, 797, 799, 801,
      804, 806, 807, 809, 811, 814, 816, 817, 819, 821, 824, 826, 827, 829,
      831, 833, 834, 836, 837, 838, 839, 841, 843, 844, 846, 847, 848, 849,
      851, 853, 854, 856, 857, 858, 859, 860, 861, 863, 864, 865, 866, 867,
      868, 869, 870, 871, 873, 874, 877, 887, 894, 897, 899, 904, 907, 909,
      914, 917, 919, 921, 924, 926, 927, 929, 931, 934, 936, 937, 939, 941,
      944, 946, 947, 949, 951, 954, 956, 957, 958, 959, 961, 963, 964, 966,
      967, 968, 969, 971, 973, 974, 976, 977, 978, 979, 981, 983, 984, 985,
      986, 987, 988, 989, 990, 991, 993, 994, 995, 996, 997, 998, 999 }

\* round(filled / total * 100, 1), in tenths of a percent
Percentage(filled, total) ==
    IF total > 0
    THEN LET q == (filled * 1000) \div total
             r == (filled * 1000) % total
         IN  IF 2 * r > total \/ (2 * r = total /\ q \in HalfRoundsUp) THEN q + 1 ELSE q
    ELSE 0

get_progress(field_values, placeholder_groups) ==
    LET all_fields == get_all_fields(placeholder_groups)
        counted(f) == f \in DOMAIN field_values /\ Truthy(field_values[f])
        total == Len(all_fields)
        filled == CountIf(all_fields, counted)
    IN  [ total |-> total,
          filled |-> filled,
          percentage |-> Percentage(filled, total),
          groups |-> [ i \in 1..Len(placeholder_groups) |->
              LET g == placeholder_groups[i]
                  g_total == Len(g.fields)
                  g_filled == CountIf(g.fields, counted)
              IN  [ name |-> g.name, filled |-> g_filled, total |-> g_total,
                    complete |-> g_filled = g_total ] ] ]

\* sorted(..., key=priority): a stable insertion sort
RECURSIVE InsertByPriority(_, _)
InsertByPriority(g, q) ==
    IF q = <<>> THEN <<g>>
    ELSE IF g.priority < Head(q).priority THEN <<g>> \o q
    ELSE <<Head(q)>> \o InsertByPriority(g, Tail(q))

RECURSIVE SortByPriority(_)
SortByPriority(q) ==
    IF q = <<>> THEN <<>>
    ELSE InsertByPriority(q[Len(q)], SortByPriority(SubSeq(q, 1, Len(q) - 1)))

RECURSIVE FirstUnfilledGroup(_, _)
FirstUnfilledGroup(sorted_groups, field_values) ==
    IF sorted_groups = <<>> THEN None
    ELSE LET g == Head(sorted_groups)
             has_unfilled ==
                 \E i \in 1..Len(g.fields) : ~is_field_filled(g.fields[i], field_values)
         IN  IF has_unfilled THEN g.name
             ELSE FirstUnfilledGroup(Tail(sorted_groups), field_values)

get_next_unfilled_group_unsorted(field_values, placeholder_groups) ==
    FirstUnfilledGroup(placeholder_groups, field_values)

get_next_unfilled_group(field_values, placeholder_groups) ==
    FirstUnfilledGroup(SortByPriority(placeholder_groups), field_values)

GroupNamed(placeholder_groups, group_name) ==
    CHOOSE g \in Range(placeholder_groups) : g.name = group_name

get_unfilled_fields(field_values, placeholder_groups, group_name) ==
    LET fields == IF group_name # None
                  THEN GroupNamed(placeholder_groups, group_name).fields
                  ELSE get_all_fields(placeholder_groups)
        unfilled(f) == ~is_field_filled(f, field_values)
    IN  Filter(fields, unfilled)

-----------------------------------------------------------------------------
(* Type router: router.py                                                  *)
(* A Chinese character is written "uXXXX", its code point.                 *)

UpperCase ==
    <<"A", "B", "C", "D", "E", "F", "G", "H", "I", "J", "K", "L", "M",
      "N", "O", "P", "Q", "R", "S", "T", "U", "V", "W", "X", "Y", "Z">>
LowerCase ==
    <<"a", "b", "c", "d", "e", "f", "g", "h", "i", "j", "k", "l", "m",
      "n", "o", "p", "q", "r", "s", "t", "u", "v", "w", "x", "y", "z">>
Digits == {"0", "1", "2", "3", "4", "5", "6", "7", "8", "9"}

lower_char(c) ==
    IF \E i \in 1..Len(UpperCase) : UpperCase[i] = c
    THEN LowerCase[CHOOSE i \in 1..Len(UpperCase) : UpperCase[i] = c]
    ELSE c

\* str.lower()
lower(s) == IF s = <<>> THEN <<>> ELSE [i \in 1..Len(s) |-> lower_char(s[i])]

\* re.sub(r"[...]+", "", s) for a character class
RemoveChars(s, class) == SelectSeq(s, LAMBDA c : c \notin class)

\* needle in hay
Contains(hay, needle) ==
    \E i \in 0..(Len(hay) - Len(needle)) : SubSeq(hay, i + 1, i + Len(needle)) = needle

RECURSIVE SumSeq(_)
SumSeq(q) == IF q = <<>> THEN 0 ELSE Head(q) + SumSeq(Tail(q))

Max2(a, b) == IF a >= b THEN a ELSE b

CONTRACT_TYPES ==
    <<
      \* tigong: 数据提供合同, GF-2025-2615
      \* keywords: 数据提供 提供合同 提供方 接收方 卖数据 买数据 数据交易 数据买卖 出售数据 购买数据 数据出让
      [ id |-> "tigong",
        key |-> <<"t", "i", "g", "o", "n", "g">>,
        name |-> <<"u6570", "u636E", "u63D0", "u4F9B", "u5408", "u540C">>,
        code |-> <<"G", "F", "-", "2", "0", "2", "5", "-", "2", "6", "1", "5">>,
        keywords |-> <<
              <<"u6570", "u636E", "u63D0", "u4F9B">>,
              <<"u63D0", "u4F9B", "u5408", "u540C">>,
              <<"u63D0", "u4F9B", "u65B9">>,
              <<"u63A5", "u6536", "u65B9">>,
              <<"u5356", "u6570", "u636E">>,
              <<"u4E70", "u6570", "u636E">>,
              <<"u6570", "u636E", "u4EA4", "u6613">>,
              <<"u6570", "u636E", "u4E70", "u5356">>,
              <<"u51FA", "u552E", "u6570", "u636E">>,
              <<"u8D2D", "u4E70", "u6570", "u636E">>,
              <<"u6570", "u636E", "u51FA", "u8BA9">> >> ],
      \* weituo: 数据委托处理服务合同, GF-2025-2616
      \* keywords: 委托处理 委托合同 数据处理 处理服务 帮我处理数据 数据加工 数据清洗 数据标注 数据脱敏 数据分析服务 外包处理
      [ id |-> "weituo",
        key |-> <<"w", "e", "i", "t", "u", "o">>,
        name |-> <<"u6570", "u636E", "u59D4", "u6258", "u5904", "u7406", "u670D", "u52A1", "u5408", "u540C">>,
        code |-> <<"G", "F", "-", "2", "0", "2", "5", "-", "2", "6", "1", "6">>,
        keywords |-> <<
              <<"u59D4", "u6258", "u5904", "u7406">>,
              <<"u59D4", "u6258", "u5408", "u540C">>,
              <<"u6570", "u636E", "u5904", "u7406">>,
              <<"u5904", "u7406", "u670D", "u52A1">>,
              <<"u5E2E", "u6211", "u5904", "u7406", "u6570", "u636E">>,
              <<"u6570", "u636E", "u52A0", "u5DE5">>,
              <<"u6570", "u636E", "u6E05", "u6D17">>,
              <<"u6570", "u636E", "u6807", "u6CE8">>,
              <<"u6570", "u636E", "u8131", "u654F">>,
              <<"u6570", "u636E", "u5206", "u6790", "u670D", "u52A1">>,
              <<"u5916", "u5305", "u5904", "u7406">> >> ],
      \* ronghe: 数据融合开发合同, GF-2025-2617
      \* keywords: 融合开发 融合合同 多方合作 数据融合 共同开发 联合开发 数据共建 数据池 多源数据 数据汇聚 联盟 共享平台
      [ id |-> "ronghe",
        key |-> <<"r", "o", "n", "g", "h", "e">>,
        name |-> <<"u6570", "u636E", "u878D", "u5408", "u5F00", "u53D1", "u5408", "u540C">>,
        code |-> <<"G", "F", "-", "2", "0", "2", "5", "-", "2", "6", "1", "7">>,
        keywords |-> <<
              <<"u878D", "u5408", "u5F00", "u53D1">>,
              <<"u878D", "u5408", "u5408", "u540C">>,
              <<"u591A", "u65B9", "u5408", "u4F5C">>,
              <<"u6570", "u636E", "u878D", "u5408">>,
              <<"u5171", "u540C", "u5F00", "u53D1">>,
              <<"u8054", "u5408", "u5F00", "u53D1">>,
              <<"u6570", "u636E", "u5171", "u5EFA">>,
              <<"u6570", "u636E", "u6C60">>,
              <<"u591A", "u6E90", "u6570", "u636E">>,
              <<"u6570", "u636E", "u6C47", "u805A">>,
              <<"u8054", "u76DF">>,
              <<"u5171", "u4EAB", "u5E73", "u53F0">> >> ],
      \* zhongjie: 数据中介服务合同, GF-2025-2618
      \* keywords: 中介服务 中介合同 撮合交易 交易平台 数据中介 数据经纪 居间服务 交易所 交易撮合 数据市场 挂牌上架
      [ id |-> "zhongjie",
        key |-> <<"z", "h", "o", "n", "g", "j", "i", "e">>,
        name |-> <<"u6570", "u636E", "u4E2D", "u4ECB", "u670D", "u52A1", "u5408", "u540C">>,
        code |-> <<"G", "F", "-", "2", "0", "2", "5", "-", "2", "6", "1", "8">>,
        keywords |-> <<
              <<"u4E2D", "u4ECB", "u670D", "u52A1">>,
              <<"u4E2D", "u4ECB", "u5408", "u540C">>,
              <<"u64AE", "u5408", "u4EA4", "u6613">>,
              <<"u4EA4", "u6613", "u5E73", "u53F0">>,
              <<"u6570", "u636E", "u4E2D", "u4ECB">>,
              <<"u6570", "u636E", "u7ECF", "u7EAA">>,
              <<"u5C45", "u95F4", "u670D", "u52A1">>,
              <<"u4EA4", "u6613", "u6240">>,
              <<"u4EA4", "u6613", "u64AE", "u5408">>,
              <<"u6570", "u636E", "u5E02", "u573A">>,
              <<"u6302", "u724C", "u4E0A", "u67B6">> >> ]
    >>

\* [\s\-_，。！？、；：,.!?;:()（）【】\[\]\"'“”‘’]
TextPunctuation ==
    { "SP", "-", "_", "uFF0C", "u3002", "uFF01", "uFF1F", "u3001", "uFF1B", "uFF1A",
      ",", ".", "!", "?", ";", ":", "(", ")", "uFF08", "uFF09", "u3010", "u3011",
      "[", "]", "QUOTE", "'", "u201C", "u201D", "u2018", "u2019" }

_normalize_text(text) ==
    IF text = <<>> THEN <<>>
    ELSE RemoveChars(strip(lower(text)), TextPunctuation)

_extract_code_variants(text) ==
    IF text = <<>> THEN {}
    ELSE LET raw == lower(text)
             compact == SelectSeq(raw, LAMBDA c : c \in Range(LowerCase) \cup Digits)
         IN  {raw, compact}

NameHit(info, raw) ==
    \/ Contains(raw, info.name)
    \/ Contains(_normalize_text(raw), _normalize_text(info.name))

CodeHit(info, raw) ==
    _extract_code_variants(raw) \cap _extract_code_variants(info.code) # {}

KeyHit(info, raw) == Contains(lower(raw), info.key)

KeywordHit(kw, raw) ==
    LET kw_norm == _normalize_text(kw)
    IN  Contains(raw, kw) \/ (kw_norm # <<>> /\ Contains(_normalize_text(raw), kw_norm))

\* the score one variant collects (the body of the loop over CONTRACT_TYPES)
TypeScore(info, raw) ==
    (IF NameHit(info, raw) THEN 100 ELSE 0)
    + (IF CodeHit(info, raw) THEN 120 ELSE 0)
    + (IF KeyHit(info, raw) THEN 80 ELSE 0)
    + SumSeq([i \in 1..Len(info.keywords) |->
                IF KeywordHit(info.keywords[i], raw)
                THEN Max2(4, Len(_normalize_text(info.keywords[i])))
                ELSE 0])

\* an exact name / code / key bonus fired for this variant
ExactBonus(info, raw) == NameHit(info, raw) \/ CodeHit(info, raw) \/ KeyHit(info, raw)

\* sorted(scores.items(), key=score, reverse=True): stable, descending
RECURSIVE InsertByScore(_, _)
InsertByScore(x, q) ==
    IF q = <<>> THEN <<x>>
    ELSE IF x.score > Head(q).score THEN <<x>> \o q
    ELSE <<Head(q)>> \o InsertByScore(x, Tail(q))

RECURSIVE RankByScore(_)
RankByScore(q) ==
    IF q = <<>> THEN <<>>
    ELSE InsertByScore(q[Len(q)], RankByScore(SubSeq(q, 1, Len(q) - 1)))

IsAmbiguous_IgnoringExactHit(ranked, exact_hit) ==
    Len(ranked) > 1 /\ (ranked[1].score - ranked[2].score) <= 3

\* ambiguous = len(ranked) > 1 and (best_score - second_score) <= 3 and not exact_hit
IsAmbiguous(ranked, exact_hit) ==
    Len(ranked) > 1 /\ (ranked[1].score - ranked[2].score) <= 3 /\ ~exact_hit

detect_contract_type_detailed(user_input) ==
    LET raw == user_input
        all == [i \in 1..Len(CONTRACT_TYPES) |->
                  [type |-> CONTRACT_TYPES[i].id, score |-> TypeScore(CONTRACT_TYPES[i], raw)]]
        scores == SelectSeq(all, LAMBDA x : x.score > 0)
        exact_hit == \E i \in 1..Len(CONTRACT_TYPES) : ExactBonus(CONTRACT_TYPES[i], raw)
        ranked == RankByScore(scores)
        ambiguous == IsAmbiguous(ranked, exact_hit)
    IN  IF scores = <<>>
        THEN [type |-> None, scores |-> <<>>, ambiguous |-> FALSE]
        ELSE [ type |-> IF ambiguous THEN None ELSE ranked[1].type,
               scores |-> scores, ambiguous |-> ambiguous ]

-----------------------------------------------------------------------------
(* Name canonicalizer: update_state.py                                     *)
(* A dict in insertion order is a sequence of [key, value] with distinct   *)
(* keys.                                                                   *)

DictKeys(d) == {d[i].key : i \in 1..Len(d)}
DictGet(d, k) == (CHOOSE x \in Range(d) : x.key = k).value

\* d[k] = v: an existing key keeps its position
DictSet(d, k, v) ==
    IF k \in DictKeys(d)
    THEN [i \in 1..Len(d) |-> IF d[i].key = k THEN [key |-> k, value |-> v] ELSE d[i]]
    ELSE Append(d, [key |-> k, value |-> v])

\* [\s_\-（）()【】\[\]，。！？、；：,.!?;:]
FieldPunctuation ==
    { "SP", "_", "-", "uFF08", "uFF09", "(", ")", "u3010", "u3011", "[", "]",
      "uFF0C", "u3002", "uFF01", "uFF1F", "u3001", "uFF1B", "uFF1A",
      ",", ".", "!", "?", ";", ":" }

_normalize_field_name(name) == RemoveChars(lower(strip(name)), FieldPunctuation)

\* the code points of the characters field names are made of
CodePoint(c) ==
    CASE c = "SP" -> 32 [] c = "(" -> 40 [] c = ")" -> 41 [] c = "-" -> 45
      [] c = "." -> 46 [] c = "A" -> 65 [] c = "B" -> 66 [] c = "_" -> 95
      [] c = "a" -> 97 [] c = "b" -> 98 [] c = "c" -> 99 [] c = "d" -> 100
      [] c = "z" -> 122 [] c = BOX -> 9744
      [] OTHER -> 200

\* x > y for Python strings
RECURSIVE StrGreater(_, _)
StrGreater(x, y) ==
    IF x = <<>> THEN FALSE
    ELSE IF y = <<>> THEN TRUE
    ELSE IF CodePoint(Head(x)) # CodePoint(Head(y))
         THEN CodePoint(Head(x)) > CodePoint(Head(y))
         ELSE StrGreater(Tail(x), Tail(y))

\* difflib.SequenceMatcher: the length of the common run at a[i..], b[j..]
RECURSIVE RunLength(_, _, _, _, _, _)
RunLength(a, b, i, j, ahi, bhi) ==
    IF i <= ahi /\ j <= bhi /\ a[i] = b[j]
    THEN 1 + RunLength(a, b, i + 1, j + 1, ahi, bhi)
    ELSE 0

\* find_longest_match: the longest block, earliest in a, then earliest in b
find_longest_match(a, b, alo, ahi, blo, bhi) ==
    LET starts == (alo..ahi) \X (blo..bhi)
        size(p) == RunLength(a, b, p[1], p[2], ahi, bhi)
        best == CHOOSE p \in starts :
                    \A q \in starts :
                        \/ size(q) < size(p)
                        \/ size(q) = size(p) /\ (p[1] < q[1] \/ (p[1] = q[1] /\ p[2] <= q[2]))
    IN  [i |-> best[1], j |-> best[2], size |-> size(best)]

\* get_matching_blocks: the number of matched characters
RECURSIVE MatchCount(_, _, _, _, _, _)
MatchCount(a, b, alo, ahi, blo, bhi) ==
    IF alo > ahi \/ blo > bhi THEN 0
    ELSE LET m == find_longest_match(a, b, alo, ahi, blo, bhi)
         IN  IF m.size = 0 THEN 0
             ELSE m.size
                  + MatchCount(a, b, alo, m.i - 1, blo, m.j - 1)
                  + MatchCount(a, b, m.i + m.size, ahi, m.j + m.size, bhi)

\* SequenceMatcher(None, a, b).ratio() as a fraction
ratio(a, b) ==
    IF Len(a) + Len(b) = 0 THEN [num |-> 1, den |-> 1]
    ELSE [num |-> 2 * MatchCount(a, b, 1, Len(a), 1, Len(b)), den |-> Len(a) + Len(b)]

\* sorted((score, x) ..., reverse=True)
RECURSIVE InsertByRatio(_, _)
InsertByRatio(x, q) ==
    IF q = <<>> THEN <<x>>
    ELSE LET y == Head(q)
             before == \/ x.r.num * y.r.den > y.r.num * x.r.den
                       \/ /\ x.r.num * y.r.den = y.r.num * x.r.den
                          /\ StrGreater(x.f, y.f)
         IN  IF before THEN <<x>> \o q ELSE <<y>> \o InsertByRatio(x, Tail(q))

RECURSIVE SortByRatio(_)
SortByRatio(q) == IF q = <<>> THEN <<>> ELSE InsertByRatio(Head(q), SortByRatio(Tail(q)))

FirstN(q, n) == SubSeq(q, 1, IF Len(q) < n THEN Len(q) ELSE n)

\* difflib.get_close_matches(word, possibilities, n, cutoff = 0.6)
get_close_matches(word, possibilities, n) ==
    LET scored == [i \in 1..Len(possibilities) |->
                     [f |-> possibilities[i], r |-> ratio(possibilities[i], word)]]
        result == SelectSeq(scored, LAMBDA x : 10 * x.r.num >= 6 * x.r.den)
        best == FirstN(SortByRatio(result), n)
    IN  [i \in 1..Len(best) |-> best[i].f]

\* normalized_map.get(norm, [])
NormalizedCandidates(valid_fields, norm) ==
    SelectSeq(valid_fields, LAMBDA f : _normalize_field_name(f) = norm)

AmbiguousSuggestions_All(candidates) == candidates

\* suggestions[raw_key] = candidates[:5]
AmbiguousSuggestions(candidates) == FirstN(candidates, 5)

\* a variant that stores a uniquely matched name as it was typed
CanonicalizeOne_RawKey(acc, raw_key, value, valid_fields) ==
    LET candidates == NormalizedCandidates(valid_fields, _normalize_field_name(raw_key))
    IN  IF raw_key \in Range(valid_fields) \/ Len(candidates) = 1
        THEN [acc EXCEPT !.resolved = DictSet(@, raw_key, value)]
        ELSE [acc EXCEPT !.unknown = Append(@, raw_key)]

\* one iteration of the loop over updates.items()
CanonicalizeOne(acc, raw_key, value, valid_fields) ==
    LET candidates == NormalizedCandidates(valid_fields, _normalize_field_name(raw_key))
        similar == get_close_matches(raw_key, valid_fields, 5)
    IN  IF raw_key \in Range(valid_fields)
        THEN [acc EXCEPT !.resolved = DictSet(@, raw_key, value)]
        ELSE IF Len(candidates) = 1
        THEN [acc EXCEPT !.resolved = DictSet(@, candidates[1], value)]
        ELSE IF Len(candidates) > 1
        THEN [acc EXCEPT !.unknown = Append(@, raw_key),
                         !.suggestions = DictSet(@, raw_key, AmbiguousSuggestions(candidates))]
        ELSE [acc EXCEPT !.unknown = Append(@, raw_key),
                         !.suggestions = IF similar # <<>>
                                         THEN DictSet(@, raw_key, similar) ELSE @]

RECURSIVE CanonicalizeFrom(_, _, _)
CanonicalizeFrom(acc, updates, valid_fields) ==
    IF updates = <<>> THEN acc
    ELSE CanonicalizeFrom(
             CanonicalizeOne(acc, Head(updates).key, Head(updates).value, valid_fields),
             Tail(updates), valid_fields)

canonicalize_updates(updates, valid_fields) ==
    CanonicalizeFrom([resolved |-> <<>>, unknown |-> <<>>, suggestions |-> <<>>],
                     updates, valid_fields)

-----------------------------------------------------------------------------
(* Template renderer: fill_contract.py                                     *)
(* A document is [paragraphs, tables]: the body paragraphs and the         *)
(* top-level tables.  A table is the sequence of its cells, row by row; a  *)
(* cell is [paragraphs, tables], tables being the tables nested in the     *)
(* cell.  A paragraph is the sequence of its runs [text, font].            *)

FONT_BODY == "FangSong"     \* 仿宋
SZ_BODY == 14

Min(S) == CHOOSE x \in S : \A y \in S : x <= y

\* para.text
ParaText(para) == Flatten([i \in 1..Len(para) |-> para[i].text])

\* where the match of \{\{(.+?)\}\} that opens at i closes (0: no match at i)
CloseOf(text, i) ==
    LET ks == {k \in (i + 3)..(Len(text) - 1) :
                  /\ text[k] = "}" /\ text[k + 1] = "}"
                  /\ \A n \in (i + 2)..(k - 1) : text[n] # "NL"}
    IN  IF ks = {} THEN 0 ELSE Min(ks)

\* the successive leftmost matches of \{\{(.+?)\}\} from position i on
RECURSIVE MatchesFrom(_, _)
MatchesFrom(text, i) ==
    IF i + 4 > Len(text) THEN <<>>
    ELSE IF text[i] = "{" /\ text[i + 1] = "{" /\ CloseOf(text, i) # 0
    THEN LET k == CloseOf(text, i)
         IN  <<[start |-> i, end |-> k + 1, key |-> SubSeq(text, i + 2, k - 1)]>>
             \o MatchesFrom(text, k + 2)
    ELSE MatchesFrom(text, i + 1)

\* re.findall(r'\{\{(.+?)\}\}', text)
findall(text) ==
    LET ms == MatchesFrom(text, 1) IN [i \in 1..Len(ms) |-> ms[i].key]

replacer_LeakingText(key, values) ==
    IF startswith(key, BOX)
    THEN IF key \in DOMAIN values /\ is_field_filled(key, values)
         THEN [text |-> IF is_checkbox_checked(values[key]) THEN <<TICK>> ELSE <<BOX>>,
               remaining |-> {}, count |-> 1]
         ELSE [text |-> <<BOX>>, remaining |-> {key}, count |-> 0]
    ELSE IF key \in DOMAIN values /\ Truthy(values[key])
         THEN [text |-> strip(str(values[key])), remaining |-> {}, count |-> 1]
         ELSE [text |-> <<>>, remaining |-> {key}, count |-> 0]

\* replacer(m): the replacement of one token, what it records as remaining
\* and what it adds to count
replacer(key, values) ==
    IF startswith(key, BOX)
    THEN IF key \in DOMAIN values
         THEN IF is_field_filled(key, values)
              THEN [text |-> IF is_checkbox_checked(values[key]) THEN <<TICK>> ELSE <<BOX>>,
                    remaining |-> {}, count |-> 1]
              ELSE [text |-> <<BOX>>, remaining |-> {key}, count |-> 0]
         ELSE [text |-> <<BOX>>, remaining |-> {key}, count |-> 0]
    ELSE IF key \in DOMAIN values /\ is_field_filled(key, values)
         THEN [text |-> strip(str(values[key])), remaining |-> {}, count |-> 1]
         ELSE [text |-> <<>>, remaining |-> {key}, count |-> 0]

\* re.sub over the matches ms of text, from position i on
RECURSIVE Substitute(_, _, _, _)
Substitute(text, ms, i, values) ==
    IF ms = <<>> THEN SubSeq(text, i, Len(text))
    ELSE SubSeq(text, i, Head(ms).start - 1)
         \o replacer(Head(ms).key, values).text
         \o Substitute(text, Tail(ms), Head(ms).end + 1, values)

replace_in_text(text, values) ==
    LET ms == MatchesFrom(text, 1)
    IN  [ result |-> Substitute(text, ms, 1, values),
          remaining |-> UNION {replacer(ms[i].key, values).remaining : i \in 1..Len(ms)},
          count |-> SumSeq([i \in 1..Len(ms) |-> replacer(ms[i].key, values).count]) ]

\* a variant that restyles the run it writes to the default style
process_paragraph_Restyled(para, values) ==
    LET full_text == ParaText(para)
        r == replace_in_text(full_text, values)
        default == [name |-> FONT_BODY, size |-> SZ_BODY, bold |-> FALSE]
    IN  IF ~Contains(full_text, <<"{", "{">>)
        THEN [para |-> para, remaining |-> {}, count |-> 0]
        ELSE IF r.result = full_text
        THEN [para |-> para, remaining |-> r.remaining, count |-> r.count]
        ELSE [ para |-> <<[text |-> r.result, font |-> default]>>
                            \o [i \in 1..(Len(para) - 1) |->
                                  [para[i + 1] EXCEPT !.text = <<>>]],
               remaining |-> r.remaining, count |-> r.count ]

\* process_paragraph(para, values): the paragraph afterwards, and what it
\* adds to unfilled
process_paragraph(para, values) ==
    LET full_text == ParaText(para)
        r == replace_in_text(full_text, values)
    IN  IF ~Contains(full_text, <<"{", "{">>)
        THEN [para |-> para, remaining |-> {}, count |-> 0]
        ELSE IF r.result = full_text
        THEN [para |-> para, remaining |-> r.remaining, count |-> r.count]
        ELSE IF para # <<>>
        THEN [ para |-> [i \in 1..Len(para) |->
                            [para[i] EXCEPT !.text = IF i = 1 THEN r.result ELSE <<>>]],
               remaining |-> r.remaining, count |-> r.count ]
        ELSE [ para |-> <<[ text |-> r.result,
                            font |-> [name |-> FONT_BODY, size |-> SZ_BODY, bold |-> FALSE] ]>>,
               remaining |-> r.remaining, count |-> r.count ]

\* the paragraphs the two loops visit: doc.paragraphs, then cell.paragraphs
\* for every cell of every row of every table of doc.tables
ScannedParagraphs(doc) ==
    doc.paragraphs
    \o Flatten([t \in 1..Len(doc.tables) |->
          Flatten([c \in 1..Len(doc.tables[t]) |-> doc.tables[t][c].paragraphs])])

\* sorted(names)
RECURSIVE InsertName(_, _)
InsertName(x, q) ==
    IF q = <<>> THEN <<x>>
    ELSE IF StrGreater(Head(q), x) THEN <<x>> \o q
    ELSE <<Head(q)>> \o InsertName(x, Tail(q))

RECURSIVE SortedNames(_)
SortedNames(S) ==
    IF S = {} THEN <<>>
    ELSE LET x == CHOOSE y \in S : TRUE IN InsertName(x, SortedNames(S \ {x}))

fill_docx_template(template, field_values) ==
    LET paras(q) == [i \in 1..Len(q) |-> process_paragraph(q[i], field_values).para]
        cell(c) == [c EXCEPT !.paragraphs = paras(@)]
        table(t) == [i \in 1..Len(t) |-> cell(t[i])]
        scanned == ScannedParagraphs(template)
        unfilled == UNION {process_paragraph(scanned[i], field_values).remaining :
                             i \in 1..Len(scanned)}
    IN  [ doc |-> [ paragraphs |-> paras(template.paragraphs),
                    tables |-> [t \in 1..Len(template.tables) |-> table(template.tables[t])] ],
          unfilled |-> SortedNames(unfilled) ]

\* init_contract.extract_placeholders_from_docx
extract_placeholders_from_docx(doc) ==
    LET scanned == ScannedParagraphs(doc)
    IN  SortedNames(UNION {Range(findall(ParaText(scanned[i]))) : i \in 1..Len(scanned)})

-----------------------------------------------------------------------------
(* SpecTrack: the tracker's functions applied to every taxonomy and value  *)
(* set of a small universe.                                                *)

MaxPriority == 2

NoResult == [op |-> "none", arg |-> None, res |-> None]

TkIdle == tk_groups = <<>> /\ tk_values = <<>> /\ tk_out = NoResult
RtIdle == rt_input = <<>> /\ rt_out = NoResult
CnIdle == cn_updates = <<>> /\ cn_valid = <<>> /\ cn_out = NoResult
RdIdle == rd_template = <<>> /\ rd_values = <<>> /\ rd_out = NoResult

SeIdle ==
    /\ se_state = NoResult /\ se_config = NoResult /\ se_template = NoResult
    /\ se_pc = "idle" /\ se_args = NoResult /\ se_exit = NoResult

AmIdle == am_input = <<>> /\ am_out = NoResult

TkAlone == RtIdle /\ CnIdle /\ RdIdle /\ SeIdle /\ AmIdle
RtAlone == TkIdle /\ CnIdle /\ RdIdle /\ SeIdle /\ AmIdle
CnAlone == TkIdle /\ RtIdle /\ RdIdle /\ SeIdle /\ AmIdle
RdAlone == TkIdle /\ RtIdle /\ CnIdle /\ SeIdle /\ AmIdle
SeAlone == TkIdle /\ RtIdle /\ CnIdle /\ RdIdle /\ AmIdle
AmAlone == TkIdle /\ RtIdle /\ CnIdle /\ RdIdle /\ SeIdle

Absent == [t |-> "absent", b |-> FALSE, s |-> <<>>]

\* the stored values of a dict, from a total assignment with Absent
DictOf(assignment) ==
    [f \in {k \in DOMAIN assignment : assignment[k] # Absent} |-> assignment[f]]

TkTextA == <<"a">>
TkTextB == <<"b">>
TkBoxC == <<BOX, "c">>
TkFieldPool == <<TkTextA, TkTextB, TkBoxC>>
TkGroupNames == <<"g1", "g2">>

TkTextValues ==
    {Absent, PyBool(TRUE), PyStr(<<>>), PyStr(<<"SP">>), PyStr(<<"v">>)}
TkBoxValues ==
    {Absent, PyBool(TRUE), PyBool(FALSE), PyStr(<<>>), PyStr(<<"0">>), PyStr(<<"v">>)}

TkValuesOf(f) == IF startswith(f, BOX) THEN TkBoxValues ELSE TkTextValues

\* the groups of a taxonomy: field f belongs to group owner[f] (0: to none);
\* groups without a field are not declared
TkTaxonomy(owner, prio) ==
    LET group(i) ==
            [ name |-> TkGroupNames[i], priority |-> prio[i],
              fields |-> SelectSeq(TkFieldPool, LAMBDA f : owner[f] = i) ]
        nonempty(g) == g.fields # <<>>
    IN  SelectSeq([i \in 1..Len(TkGroupNames) |-> group(i)], nonempty)

TkInit ==
    /\ \E owner \in [Range(TkFieldPool) -> 0..Len(TkGroupNames)],
          prio \in [1..Len(TkGroupNames) -> 1..MaxPriority] :
          tk_groups = TkTaxonomy(owner, prio)
    /\ \E a \in TkTextValues, b \in TkTextValues, c \in TkBoxValues :
          tk_values = DictOf((TkTextA :> a) @@ (TkTextB :> b) @@ (TkBoxC :> c))
    /\ tk_out = NoResult
    /\ TkAlone

TkProgress ==
    /\ tk_out.op = "none"
    /\ tk_out' = [ op |-> "get_progress", arg |-> None,
                   res |-> get_progress(tk_values, tk_groups) ]
    /\ UNCHANGED <<tk_groups, tk_values, tkOthers>>

TkNextGroup ==
    /\ tk_out.op = "none"
    /\ tk_out' = [ op |-> "get_next_unfilled_group", arg |-> None,
                   res |-> get_next_unfilled_group(tk_values, tk_groups) ]
    /\ UNCHANGED <<tk_groups, tk_values, tkOthers>>

TkUnfilled ==
    /\ tk_out.op = "none"
    /\ \E group_name \in {None} \cup {g.name : g \in Range(tk_groups)} :
          tk_out' = [ op |-> "get_unfilled_fields", arg |-> group_name,
                      res |-> get_unfilled_fields(tk_values, tk_groups, group_name) ]
    /\ UNCHANGED <<tk_groups, tk_values, tkOthers>>

TkNext == TkProgress \/ TkNextGroup \/ TkUnfilled

SpecTrack == TkInit /\ [][TkNext]_vars

-----------------------------------------------------------------------------
(* Claims about the tracker                                                *)

AllFilled(g, values) ==
    \A i \in 1..Len(g.fields) : is_field_filled(g.fields[i], values)

\* C5: progress counts with isFilled: progress.filled is the number of fields
\* of the flattened list with isFilled true, perGroup[g].filled is that count
\* restricted to g, and perGroup[g].complete holds iff g has no unfilled field.
C5_ProgressCountsIsFilled ==
    tk_out.op = "get_progress" =>
        LET p == tk_out.res
            all == get_all_fields(tk_groups)
            filledIn(q) == Cardinality({i \in 1..Len(q) : is_field_filled(q[i], tk_values)})
        IN  /\ p.total = Len(all)
            /\ p.filled = filledIn(all)
            /\ p.filled + Len(get_unfilled_fields(tk_values, tk_groups, None)) = p.total
            /\ \A i \in 1..Len(tk_groups) :
                  /\ p.groups[i].filled = filledIn(tk_groups[i].fields)
                  /\ p.groups[i].complete <=>
                        get_unfilled_fields(tk_values, tk_groups, tk_groups[i].name) = <<>>

\* C6: nextGroup returns a group that has an unfilled field while every group
\* of strictly lower priority number is completely filled; it returns none
\* exactly when every field of every group is filled, which is exactly when
\* unfilledFields without a group argument is empty.
C6_NextGroupLowestPriority ==
    tk_out.op = "get_next_unfilled_group" =>
        LET r == tk_out.res
            everyFilled == \A g \in Range(tk_groups) : AllFilled(g, tk_values)
        IN  /\ (r = None) <=> everyFilled
            /\ (r = None) <=> (get_unfilled_fields(tk_values, tk_groups, None) = <<>>)
            /\ r # None =>
                  \E g \in Range(tk_groups) :
                      /\ g.name = r
                      /\ ~AllFilled(g, tk_values)
                      /\ \A h \in Range(tk_groups) :
                            h.priority < g.priority => AllFilled(h, tk_values)

\* a group declared later but of lower priority number is returned although
\* the group declared first also has an unfilled field
C6_Witness ==
    /\ tk_out.op = "get_next_unfilled_group"
    /\ Len(tk_groups) = 2
    /\ tk_out.res = tk_groups[2].name
    /\ tk_groups[2].priority < tk_groups[1].priority
    /\ ~AllFilled(tk_groups[1], tk_values)

-----------------------------------------------------------------------------
(* SpecRoute: the router applied to every text made of a few pieces        *)

MaxPieces == 3

RtPieces ==
    { CONTRACT_TYPES[1].name,                    \* 数据提供合同
      CONTRACT_TYPES[2].name,                    \* 数据委托处理服务合同
      CONTRACT_TYPES[2].code,                    \* GF-2025-2616
      CONTRACT_TYPES[2].key,                     \* weituo
      CONTRACT_TYPES[1].key,                     \* tigong
      <<"u5E2E", "u6211", "u5904", "u7406", "u6570", "u636E">>,   \* 帮我处理数据
      <<"u6570", "u636E", "u5904", "u7406">>,    \* 数据处理
      <<"u6570", "u636E", "u4EA4", "u6613">>,    \* 数据交易
      <<"u5E73", "u53F0">>,                      \* 平台
      <<"SP">>,
      <<"2">> }

RtInit ==
    /\ \E n \in 0..MaxPieces : \E pieces \in [1..n -> RtPieces] :
          rt_input = Flatten(pieces)
    /\ rt_out = NoResult
    /\ RtAlone

\* detect_contract_type_detailed(user_input)
Route ==
    /\ rt_out.op = "none"
    /\ rt_out' = [ op |-> "detect_contract_type_detailed", arg |-> None,
                   res |-> detect_contract_type_detailed(rt_input) ]
    /\ UNCHANGED <<rt_input, rtOthers>>

\* detect_contract_type(user_input): the type alone
RouteType ==
    /\ rt_out.op = "none"
    /\ rt_out' = [ op |-> "detect_contract_type", arg |-> None,
                   res |-> detect_contract_type_detailed(rt_input).type ]
    /\ UNCHANGED <<rt_input, rtOthers>>

RtNext == Route \/ RouteType

SpecRoute == RtInit /\ [][RtNext]_vars

-----------------------------------------------------------------------------
(* Claims about the router                                                 *)

Routed == rt_out.op = "detect_contract_type_detailed"

CatalogIds == {CONTRACT_TYPES[i].id : i \in 1..Len(CONTRACT_TYPES)}
InfoOf(id) == CHOOSE info \in Range(CONTRACT_TYPES) : info.id = id

\* the score table of a result as a function on the variants it lists
ScoreTable(res) ==
    [id \in {res.scores[i].type : i \in 1..Len(res.scores)} |->
        (CHOOSE x \in Range(res.scores) : x.type = id).score]

\* C3: the selection rule.  Variants scoring 0 are absent from scores; with no
\* scoring variant selected is none and ambiguous is false; otherwise ambiguous
\* holds exactly when at least two variants score, the top two scores differ
\* by at most 3 and no exact name/code/key bonus fired for the top-scoring
\* variant; ambiguous comes with selected = none, and a non-ambiguous result
\* with a non-empty table selects a variant of maximal score.
C3_SelectionRule ==
    Routed =>
        LET res == rt_out.res
            table == ScoreTable(res)
            scoring == DOMAIN table
            top == CHOOSE t \in scoring : \A u \in scoring : table[u] <= table[t]
            \* the second score: the best among the other scoring variants
            others == scoring \ {top}
            second == CHOOSE u \in others : \A w \in others : table[w] <= table[u]
            tops == {t \in scoring : table[t] = table[top]}
        IN  /\ Len(res.scores) = Cardinality(scoring)
            /\ \A id \in CatalogIds :
                  /\ id \in scoring <=> TypeScore(InfoOf(id), rt_input) > 0
                  /\ id \in scoring => table[id] = TypeScore(InfoOf(id), rt_input)
            /\ scoring = {} => res.type = None /\ ~res.ambiguous
            /\ scoring # {} =>
                  /\ res.ambiguous <=>
                        /\ Cardinality(scoring) >= 2
                        /\ table[top] - table[second] <= 3
                        /\ \A t \in tops : ~ExactBonus(InfoOf(t), rt_input)
                  /\ res.ambiguous <=>
                        /\ Cardinality(scoring) >= 2
                        /\ table[top] - table[second] <= 3
                        /\ \E t \in tops : ~ExactBonus(InfoOf(t), rt_input)
                  /\ res.ambiguous => res.type = None
                  /\ ~res.ambiguous => res.type \in tops

\* two variants score within the threshold and an exact bonus decides
C3_Witness ==
    /\ Routed
    /\ Len(rt_out.res.scores) >= 2
    /\ ~rt_out.res.ambiguous
    /\ \E i, j \in 1..Len(rt_out.res.scores) :
          /\ i # j
          /\ rt_out.res.scores[i].type = rt_out.res.type
          /\ rt_out.res.scores[i].score - rt_out.res.scores[j].score \in 0..3

\* generic keywords alone, nearly tied: ambiguous without a selection
C3_WitnessAmbiguous ==
    Routed /\ rt_out.res.ambiguous /\ Len(rt_out.res.scores) >= 2

\* the display name or the official code of a variant appears in the text
Mentions(info, raw) == Contains(raw, info.name) \/ Contains(raw, info.code)

\* C4: when the official code or the display name of exactly one variant
\* appears in the text, alone or surrounded by other text, route selects
\* that variant with ambiguous = false.
C4_ExplicitMentionResolves ==
    Routed =>
        \A info \in Range(CONTRACT_TYPES) :
            ( /\ Mentions(info, rt_input)
              /\ \A other \in Range(CONTRACT_TYPES) \ {info} : ~Mentions(other, rt_input) )
            => rt_out.res.type = info.id /\ ~rt_out.res.ambiguous

-----------------------------------------------------------------------------
(* SpecCanon: canonicalize_updates applied to every small batch and every  *)
(* valid-field list of a universe with colliding names                     *)

MaxBatch == 2

\* seven declared names that normalize to "ab"
CnColliding ==
    << <<"a", "b">>, <<"a", "SP", "b">>, <<"a", "_", "b">>, <<"a", "-", "b">>,
       <<"a", ".", "b">>, <<"a", "(", "b">>, <<"A", "b">> >>
CnBox == <<BOX, "c">>

CnRawKeys ==
    { <<"a", "b">>, <<"a", "SP", "b">>, <<"A", "B">>, <<"a", "b", "c">>, <<"z">>, CnBox }
CnRawValues == {PyStr(<<"v">>), PyStr(<<"w">>)}

\* the dicts of at most n items over the given keys and values
Dicts(keys, values, n) ==
    UNION { { d \in [1..k -> [key : keys, value : values]] :
                \A i, j \in 1..k : i # j => d[i].key # d[j].key } : k \in 0..n }

CnInit ==
    /\ \E i \in 1..(Len(CnColliding) + 1), j \in 0..Len(CnColliding), box \in BOOLEAN :
          /\ i <= j + 1
          /\ cn_valid = SubSeq(CnColliding, i, j) \o (IF box THEN <<CnBox>> ELSE <<>>)
    /\ cn_updates \in Dicts(CnRawKeys, CnRawValues, MaxBatch)
    /\ cn_out = NoResult
    /\ CnAlone

Canonicalize ==
    /\ cn_out.op = "none"
    /\ cn_out' = [ op |-> "canonicalize_updates", arg |-> None,
                   res |-> canonicalize_updates(cn_updates, cn_valid) ]
    /\ UNCHANGED <<cn_updates, cn_valid, cnOthers>>

CnNext == Canonicalize

SpecCanon == CnInit /\ [][CnNext]_vars

-----------------------------------------------------------------------------
(* Claims about the canonicalizer                                          *)

Canonicalized == cn_out.op = "canonicalize_updates"

\* the valid fields whose normalized form equals the normalized raw key
NormalizedMatches(raw_key, valid_fields) ==
    {f \in Range(valid_fields) : _normalize_field_name(f) = _normalize_field_name(raw_key)}

\* raw_key may be resolved to F
MayResolve(raw_key, F, valid_fields) ==
    /\ F \in Range(valid_fields)
    /\ \/ raw_key = F
       \/ NormalizedMatches(raw_key, valid_fields) = {F}

\* a raw key is resolved to F only when F is valid and the key equals F or F is
\* its only normalized match, and F then carries the value of such a key
ResolvedOnlyRightly(res, updates, valid_fields) ==
    \A F \in DictKeys(res.resolved) :
        \E k \in DictKeys(updates) :
            /\ MayResolve(k, F, valid_fields)
            /\ DictGet(res.resolved, F) = DictGet(updates, k)

\* a key that is not valid and has two or more normalized matches is unknown
\* and every one of its matches is suggested
AmbiguousListsAll(res, updates, valid_fields) ==
    \A k \in DictKeys(updates) :
        (k \notin Range(valid_fields) /\ Cardinality(NormalizedMatches(k, valid_fields)) >= 2)
        => /\ k \in Range(res.unknown)
           /\ k \in DictKeys(res.suggestions)
           /\ Range(DictGet(res.suggestions, k)) = NormalizedMatches(k, valid_fields)

\* a key with no normalized match is unknown, is not resolved by the fuzzy
\* fallback, and gets at most 5 suggestions
UnmatchedStaysUnknown(res, updates, valid_fields) ==
    \A k \in DictKeys(updates) :
        (k \notin Range(valid_fields) /\ NormalizedMatches(k, valid_fields) = {})
        => /\ k \in Range(res.unknown)
           /\ k \in DictKeys(res.suggestions) =>
                 /\ Len(DictGet(res.suggestions, k)) <= 5
                 /\ Range(DictGet(res.suggestions, k)) \subseteq Range(valid_fields)
           /\ Len(res.resolved) <=
                 Cardinality({j \in DictKeys(updates) \ {k} :
                                 \E F \in Range(valid_fields) : MayResolve(j, F, valid_fields)})

\* C2: canonicalize never maps a name to a wrong field: a key is resolved to F
\* only if F is valid and the key equals F or F is its only normalized match;
\* a key with two or more normalized matches is reported unknown with all of
\* those candidates as suggestions; a key with no normalized match is reported
\* unknown, never resolved, with at most 5 suggestions.
C2_NeverMapsToWrongField ==
    Canonicalized =>
        /\ ResolvedOnlyRightly(cn_out.res, cn_updates, cn_valid)
        /\ AmbiguousListsAll(cn_out.res, cn_updates, cn_valid)
        /\ UnmatchedStaysUnknown(cn_out.res, cn_updates, cn_valid)

-----------------------------------------------------------------------------
(* SpecRender: fill_docx_template applied to every small template and      *)
(* value set                                                               *)

MaxBody == 2

RdTextA == <<"a">>
RdBoxC == <<BOX, "c">>

RdFont1 == [name |-> "SimSun", size |-> 12, bold |-> TRUE]
RdFont2 == [name |-> "KaiTi", size |-> 16, bold |-> FALSE]

RdParagraphPool ==
    { <<[text |-> <<"{", "{", "a", "}", "}">>, font |-> RdFont1]>>,
      \* a token split over two runs
      <<[text |-> <<"x", "{", "{">>, font |-> RdFont1],
        [text |-> <<BOX, "c", "}", "}">>, font |-> RdFont2]>>,
      <<[text |-> <<"{", "{", BOX, "c", "}", "}">>, font |-> RdFont2],
        [text |-> <<"{", "{", "a", "}", "}">>, font |-> RdFont1]>>,
      \* no token
      <<[text |-> <<"x">>, font |-> RdFont1]>>,
      \* marker characters without a name
      <<[text |-> <<"{", "{", "}", "}">>, font |-> RdFont1]>> }

RdTextValues ==
    { Absent, PyStr(<<"v">>), PyStr(<<"SP", "v", "SP">>), PyBool(TRUE),
      PyStr(<<"{", "{", "a", "}", "}">>) }
RdBoxValues ==
    { Absent, PyBool(TRUE), PyBool(FALSE), PyStr(<<"x">>), PyStr(<<>>) }

\* a document with the given body, a paragraph in a table cell and a
\* paragraph in a table nested in that cell (<<>>: none)
RdDocument(body, cellParas, nestedParas) ==
    LET nested == IF nestedParas = <<>> THEN <<>>
                  ELSE << <<[paragraphs |-> nestedParas, tables |-> <<>>]>> >>
    IN  [ paragraphs |-> body,
          tables |-> IF cellParas = <<>> /\ nestedParas = <<>> THEN <<>>
                     ELSE << <<[paragraphs |-> cellParas, tables |-> nested]>> >> ]

OptionalParagraph == {<<>>} \cup {<<p>> : p \in RdParagraphPool}

RdInit ==
    /\ \E n \in 0..MaxBody : \E body \in [1..n -> RdParagraphPool] :
       \E cellParas \in OptionalParagraph, nestedParas \in OptionalParagraph :
          rd_template = RdDocument(body, cellParas, nestedParas)
    /\ \E a \in RdTextValues, c \in RdBoxValues :
          rd_values = DictOf((RdTextA :> a) @@ (RdBoxC :> c))
    /\ rd_out = NoResult
    /\ RdAlone

Render ==
    /\ rd_out.op = "none"
    /\ rd_out' = [ op |-> "fill_docx_template", arg |-> None,
                   res |-> fill_docx_template(rd_template, rd_values) ]
    /\ UNCHANGED <<rd_template, rd_values, rdOthers>>

ExtractPlaceholders ==
    /\ rd_out.op = "none"
    /\ rd_out' = [ op |-> "extract_placeholders_from_docx", arg |-> None,
                   res |-> extract_placeholders_from_docx(rd_template) ]
    /\ UNCHANGED <<rd_template, rd_values, rdOthers>>

RdNext == Render \/ ExtractPlaceholders

SpecRender == RdInit /\ [][RdNext]_vars

-----------------------------------------------------------------------------
(* Claims about the renderer                                               *)

Rendered == rd_out.op = "fill_docx_template"

\* every paragraph of a cell, those of the tables nested in it included
RECURSIVE CellParagraphs(_)
CellParagraphs(cell) ==
    cell.paragraphs
    \o Flatten([t \in 1..Len(cell.tables) |->
          Flatten([c \in 1..Len(cell.tables[t]) |-> CellParagraphs(cell.tables[t][c])])])

\* every text-bearing node: the body, the table cells, the nested tables
AllParagraphs(doc) ==
    doc.paragraphs
    \o Flatten([t \in 1..Len(doc.tables) |->
          Flatten([c \in 1..Len(doc.tables[t]) |-> CellParagraphs(doc.tables[t][c])])])

TokenNames(paragraphs) ==
    UNION {Range(findall(ParaText(paragraphs[i]))) : i \in 1..Len(paragraphs)}

\* the replacement the substitution rule gives a token
RuleReplacement(name, values) ==
    IF startswith(name, BOX)
    THEN IF is_field_filled(name, values) /\ is_checkbox_checked(values[name])
         THEN <<TICK>> ELSE <<BOX>>
    ELSE IF is_field_filled(name, values) THEN strip(str(values[name])) ELSE <<>>

\* text with each of its tokens ms, from position i on, replaced by the rule
RECURSIVE RuleText(_, _, _, _)
RuleText(text, ms, i, values) ==
    IF ms = <<>> THEN SubSeq(text, i, Len(text))
    ELSE SubSeq(text, i, Head(ms).start - 1)
         \o RuleReplacement(Head(ms).key, values)
         \o RuleText(text, Tail(ms), Head(ms).end + 1, values)

C8_UnresolvedListExact ==
    Rendered =>
        LET list == rd_out.res.unfilled
            names == TokenNames(AllParagraphs(rd_template))
        IN  /\ Range(list) = {name \in names : ~is_field_filled(name, rd_values)}
            /\ \A i, j \in 1..Len(list) : i < j => StrGreater(list[j], list[i])
            /\ (\A name \in names : is_field_filled(name, rd_values)) => list = <<>>

\* C9: after render no paragraph of the body, of a table cell or of a table
\* nested in a cell still shows a {{name}} token.
C9_NoMarkerRemains ==
    Rendered =>
        \A p \in Range(AllParagraphs(rd_out.res.doc)) : findall(ParaText(p)) = <<>>

-----------------------------------------------------------------------------
(* Commands: init_contract.py, update_state.py and fill_contract.py        *)
(* field_aliases is a dict in insertion order: source -> targets.          *)

RECURSIVE ApplyAliasTargets(_, _, _)
ApplyAliasTargets(updated, source, targets) ==
    IF targets = <<>> THEN updated
    ELSE LET target == Head(targets)
             next == IF target \notin DOMAIN updated \/ ~Truthy(updated[target])
                     THEN (target :> updated[source]) @@ updated
                     ELSE updated
         IN  ApplyAliasTargets(next, source, Tail(targets))

RECURSIVE apply_aliases(_, _)
apply_aliases(field_values, field_aliases) ==
    IF field_aliases = <<>> THEN field_values
    ELSE LET source == Head(field_aliases).key
             updated == IF source \in DOMAIN field_values /\ Truthy(field_values[source])
                        THEN ApplyAliasTargets(field_values, source,
                                               Head(field_aliases).value)
                        ELSE field_values
         IN  apply_aliases(updated, Tail(field_aliases))

\* the first group of the config that lists p (0: none)
OwnerOf(p, placeholder_groups) ==
    LET owners == {i \in 1..Len(placeholder_groups) :
                      p \in Range(placeholder_groups[i].fields)}
    IN  IF owners = {} THEN 0 ELSE CHOOSE i \in owners : \A j \in owners : i <= j

\* init_state's loop: groups appear in the order of their first placeholder
RECURSIVE GroupedFrom(_, _, _)
GroupedFrom(grouped, placeholders, placeholder_groups) ==
    IF placeholders = <<>> THEN grouped
    ELSE LET p == Head(placeholders)
             o == OwnerOf(p, placeholder_groups)
             info == placeholder_groups[o]
             known == \E i \in 1..Len(grouped) : grouped[i].name = info.name
             next == IF o = 0 THEN grouped
                     ELSE IF known
                     THEN [i \in 1..Len(grouped) |->
                             IF grouped[i].name = info.name
                             THEN [grouped[i] EXCEPT !.fields = Append(@, p)]
                             ELSE grouped[i]]
                     ELSE Append(grouped, [ name |-> info.name,
                                            priority |-> info.priority,
                                            fields |-> <<p>> ])
         IN  GroupedFrom(next, Tail(placeholders), placeholder_groups)

init_state(contract_type, cfg, doc) ==
    LET placeholders == extract_placeholders_from_docx(doc)
        is_checkbox(p) == startswith(p, BOX)
        is_text(p) == ~startswith(p, BOX)
        no_owner(p) == OwnerOf(p, cfg.PLACEHOLDER_GROUPS) = 0
    IN  [ contract_type |-> contract_type,
          contract_name |-> cfg.CONTRACT_NAME,
          contract_code |-> cfg.CONTRACT_CODE,
          template_path |-> cfg.TEMPLATE_PATH,
          total_placeholders |-> Len(placeholders),
          checkbox_count |-> Len(Filter(placeholders, is_checkbox)),
          text_count |-> Len(Filter(placeholders, is_text)),
          all_placeholders |-> placeholders,
          groups |-> GroupedFrom(<<>>, placeholders, cfg.PLACEHOLDER_GROUPS),
          ungrouped |-> Filter(placeholders, no_owner),
          field_values |-> <<>> ]

\* dict.update
DictUpdate(field_values, updates) ==
    [f \in DOMAIN field_values \cup DictKeys(updates) |->
        IF f \in DictKeys(updates) THEN DictGet(updates, f) ELSE field_values[f]]

\* a variant that writes the updates in place of the stored values
update_state_Replacing(st, updates) ==
    [st EXCEPT !.field_values = DictUpdate(<<>>, updates)]

\* update_state: one read, one write of the snapshot
update_state(st, updates) ==
    [st EXCEPT !.field_values = DictUpdate(@, updates)]

\* An argument is [given, s]; --json is [kind, d], kind being "none",
\* "invalid" (text json.loads or dict.update rejects) or "dict".
NotGiven == [given |-> FALSE, s |-> <<>>]
Given(s) == [given |-> TRUE, s |-> s]

RECURSIVE MergeUpdates(_, _)
MergeUpdates(updates, json_updates) ==
    IF json_updates = <<>> THEN updates
    ELSE MergeUpdates(DictSet(updates, Head(json_updates).key, Head(json_updates).value),
                      Tail(json_updates))

\* the updates dict main builds from --field/--value and --json
BuildUpdates(a) ==
    LET single == IF a.field.given /\ a.field.s # <<>> /\ a.value.given /\ a.value.s # <<>>
                  THEN <<[key |-> a.field.s, value |-> PyStr(a.value.s)]>>
                  ELSE <<>>
    IN  IF a.json.kind = "dict" THEN MergeUpdates(single, a.json.d) ELSE single

\* A command's outcome: the snapshot it leaves, its exit code, what it
\* printed, and the document it wrote (written = FALSE: none).
Outcome(st, exit_code, out) ==
    [state |-> st, exit_code |-> exit_code, out |-> out, written |-> FALSE, doc |-> <<>>]

ShowReport(progress, sorted_groups, unfilled, next_group) ==
    [ kind |-> "show",
      progress |-> progress,
      order |-> [i \in 1..Len(sorted_groups) |-> sorted_groups[i].name],
      unfilled |-> FirstN(unfilled, 20),
      more |-> IF Len(unfilled) > 20 THEN Len(unfilled) - 20 ELSE 0,
      next_group |-> IF unfilled # <<>> THEN next_group ELSE None ]

\* update_state.main, --show
show_main(st) ==
    Outcome(st, 0,
            ShowReport(get_progress(st.field_values, st.groups),
                       SortByPriority(st.groups),
                       get_unfilled_fields(st.field_values, st.groups, None),
                       get_next_unfilled_group(st.field_values, st.groups)))

RECURSIVE DeleteFrom(_, _, _)
DeleteFrom(field_values, deleted, names) ==
    IF names = <<>> THEN [field_values |-> field_values, deleted |-> deleted]
    ELSE IF Head(names) \in DOMAIN field_values
    THEN DeleteFrom([f \in DOMAIN field_values \ {Head(names)} |-> field_values[f]],
                    Append(deleted, Head(names)), Tail(names))
    ELSE DeleteFrom(field_values, deleted, Tail(names))

\* a variant that clears every stored value once a named one is found
delete_main_Clearing(st, names) ==
    LET r == DeleteFrom(st.field_values, <<>>, names)
    IN  Outcome([st EXCEPT !.field_values = IF r.deleted # <<>> THEN <<>> ELSE @], 0,
                [kind |-> "deleted", deleted |-> r.deleted])

\* update_state.main, --delete
delete_main(st, names) ==
    LET r == DeleteFrom(st.field_values, <<>>, names)
    IN  Outcome([st EXCEPT !.field_values = r.field_values], 0,
                [kind |-> "deleted", deleted |-> r.deleted])

\* a variant that writes the resolved names next to the rejected ones
WriteResolved_KeepingResolved(st, c) ==
    [ rejected |-> c.unknown # <<>>, canon |-> c,
      state |-> update_state(st, c.resolved) ]

\* main after canonicalize_updates: any unknown name rejects the batch
\* before the write
WriteResolved(st, c) ==
    [ rejected |-> c.unknown # <<>>, canon |-> c,
      state |-> IF c.unknown # <<>> THEN st ELSE update_state(st, c.resolved) ]

ValidateAndWrite(st, updates) ==
    WriteResolved(st, canonicalize_updates(updates, get_all_fields(st.groups)))

\* what main prints after the write
UpdateReportOf(count, progress, unfilled, next_group, group_unfilled) ==
    [ kind |-> "updated",
      count |-> count,
      progress |-> progress,
      unfilled |-> Len(unfilled),
      next_group |-> IF unfilled # <<>> THEN next_group ELSE None,
      group_unfilled |-> IF unfilled # <<>> THEN FirstN(group_unfilled, 10) ELSE <<>>,
      more |-> IF unfilled # <<>> /\ Len(group_unfilled) > 10
               THEN Len(group_unfilled) - 10 ELSE 0 ]

UpdateReportIn(count, field_values, groups, next_group) ==
    UpdateReportOf(count,
                   get_progress(field_values, groups),
                   get_unfilled_fields(field_values, groups, None),
                   next_group,
                   IF next_group # None
                   THEN get_unfilled_fields(field_values, groups, next_group)
                   ELSE <<>>)

UpdateReport(st, count) ==
    UpdateReportIn(count, st.field_values, st.groups,
                   get_next_unfilled_group(st.field_values, st.groups))

UpdateExit(w) ==
    IF w.rejected
    THEN Outcome(w.state, 1, [ kind |-> "unknown_fields",
                               unknown |-> w.canon.unknown,
                               suggestions |-> w.canon.suggestions ])
    ELSE Outcome(w.state, 0, UpdateReport(w.state, Len(w.canon.resolved)))

UpdateWith(st, updates) ==
    IF updates = <<>>
    THEN Outcome(st, 1, [kind |-> "no_updates"])
    ELSE UpdateExit(ValidateAndWrite(st, updates))

\* update_state.main, --field/--value/--json
update_main(st, a) ==
    IF a.json.kind = "invalid"
    THEN Outcome(st, 1, [kind |-> "json_error"])
    ELSE UpdateWith(st, BuildUpdates(a))

\* a variant whose gate lets an incomplete snapshot through without --force
Gate_Open(unfilled_from_config, a) ==
    IF unfilled_from_config # <<>> /\ a.check THEN "check_failed"
    ELSE IF a.check THEN "check_passed"
    ELSE "fill"

\* fill_contract.main's completeness gate
Gate(unfilled_from_config, a) ==
    IF unfilled_from_config # <<>> /\ a.check THEN "check_failed"
    ELSE IF unfilled_from_config # <<>> /\ ~a.force THEN "refused"
    ELSE IF a.check THEN "check_passed"
    ELSE "fill"

Generated(st, header, listed, r) ==
    [ state |-> st, exit_code |-> 0,
      out |-> [ kind |-> "generated", header |-> header,
                forced |-> listed, unfilled |-> FirstN(r.unfilled, 20) ],
      written |-> TRUE, doc |-> r.doc ]

FillGated(st, gate, header, listed, doc, field_values) ==
    IF gate = "check_failed" \/ gate = "refused"
    THEN Outcome(st, 1, [kind |-> gate, header |-> header, unfilled |-> listed])
    ELSE IF gate = "check_passed"
    THEN Outcome(st, 0, [kind |-> gate, header |-> header])
    ELSE Generated(st, header, listed, fill_docx_template(doc, field_values))

FillChecked(st, a, doc, field_values, unfilled_from_config) ==
    LET filled(f) == is_field_filled(f, field_values)
    IN  FillGated(st, Gate(unfilled_from_config, a),
                  [ total_fields |-> st.total_placeholders,
                    filled_count |-> CountIf(st.all_placeholders, filled) ],
                  FirstN(unfilled_from_config, 30), doc, field_values)

FillWith(st, a, doc, field_values, placeholder_groups) ==
    FillChecked(st, a, doc, field_values,
                get_unfilled_fields(field_values, placeholder_groups, None))

\* fill_contract.main.  a.template is "" when --template is not given;
\* template_exists and config_loads are what the command finds on disk;
\* templates maps a path to the document there.
fill_main(st, a, cfg, templates, template_exists, config_loads) ==
    LET template_path == IF a.template # "" THEN a.template ELSE st.template_path
        loaded == st.contract_type # "" /\ config_loads
    IN  IF ~template_exists
        THEN Outcome(st, 1, [kind |-> "no_template"])
        ELSE FillWith(st, a, templates[template_path],
                      IF loaded THEN apply_aliases(st.field_values, cfg.FIELD_ALIASES)
                      ELSE st.field_values,
                      IF loaded THEN cfg.PLACEHOLDER_GROUPS ELSE st.groups)

-----------------------------------------------------------------------------
(* Spec: a session.  init_state has written the snapshot; then commands    *)
(* run one after the other against it.                                     *)

MaxJson == 2
MaxDelete == 2

SeTextA == <<"a">>
SeTextAB == <<"a", "_", "b">>
SeBoxC == <<BOX, "c">>
SeTextD == <<"d">>
SeTextE == <<"e">>

\* the config module of the contract type: with or without a field that
\* the template does not hold, with or without an alias a -> a_b
SeConfig(extra, aliases) ==
    [ PLACEHOLDER_GROUPS |->
          << [ name |-> "basic", priority |-> 2, fields |-> <<SeTextA, SeBoxC>> ],
             [ name |-> "detail", priority |-> 1, fields |-> <<SeTextAB>> \o extra ] >>,
      FIELD_ALIASES |-> aliases,
      TEMPLATE_PATH |-> "template.docx",
      CONTRACT_NAME |-> "name",
      CONTRACT_CODE |-> "code" ]

SeToken(name) == [text |-> <<"{", "{">> \o name \o <<"}", "}">>, font |-> RdFont1]

\* the template: {{a}}{{a_b}} in the body, {{☐c}} in a table cell, and
\* with or without {{d}}, which no group of the config lists
SeDocument(extra) ==
    RdDocument(<< <<SeToken(SeTextA), SeToken(SeTextAB)>> >> \o extra,
               << <<SeToken(SeBoxC)>> >>, <<>>)

SeOtherDocument == RdDocument(<< <<SeToken(SeTextA)>> >>, <<>>, <<>>)

SeFieldArgs == {NotGiven, Given(SeBoxC), Given(SeTextD)}
SeValueArgs == {NotGiven, Given(<<>>), Given(<<"v">>)}
SeJsonKeys == {SeTextA, <<"a", "SP", "b">>, <<"z">>}
SeJsonValues == {PyStr(<<"v">>), PyBool(FALSE)}
SeJsonArgs ==
    {[kind |-> "none", d |-> <<>>], [kind |-> "invalid", d |-> <<>>]}
        \cup {[kind |-> "dict", d |-> d] : d \in Dicts(SeJsonKeys, SeJsonValues, MaxJson)}
SeDeleteNames == {SeTextA, SeBoxC, <<"z">>}
SeDeleteArgs == UNION {[1..n -> SeDeleteNames] : n \in 1..MaxDelete}

Init ==
    /\ \E extra \in {<<>>, <<SeTextE>>},
          aliases \in {<<>>, <<[key |-> SeTextA, value |-> <<SeTextAB>>]>>},
          body \in {<<>>, << <<SeToken(SeTextD)>> >>} :
          /\ se_config = SeConfig(extra, aliases)
          /\ se_template = ("template.docx" :> SeDocument(body))
                               @@ ("other.docx" :> SeOtherDocument)
          /\ se_state = init_state("tigong", SeConfig(extra, aliases), SeDocument(body))
    /\ se_pc = "ready"
    /\ se_args = NoResult
    /\ se_exit = NoResult
    /\ SeAlone

\* a command runs to its exit
Exits(a, r) ==
    /\ se_state' = r.state
    /\ se_args' = a
    /\ se_exit' = [ exit_code |-> r.exit_code, out |-> r.out,
                    written |-> r.written, doc |-> r.doc ]
    /\ se_pc' = "exited"
    /\ UNCHANGED <<se_config, se_template, seOthers>>

\* update_state.py --show (which outranks the other arguments)
Show ==
    /\ se_pc = "ready"
    /\ Exits([op |-> "show"], show_main(se_state))

\* update_state.py --delete FIELD... (which outranks the update arguments)
Delete ==
    /\ se_pc = "ready"
    /\ \E names \in SeDeleteArgs :
          Exits([op |-> "delete", delete |-> names], delete_main(se_state, names))

\* update_state.py [--field F] [--value V] [--json J]
Update ==
    /\ se_pc = "ready"
    /\ \E field \in SeFieldArgs, value \in SeValueArgs, json \in SeJsonArgs :
          LET a == [op |-> "update", field |-> field, value |-> value, json |-> json]
          IN  Exits(a, update_main(se_state, a))

\* fill_contract.py [--template T] [--force] [--check]
Fill ==
    /\ se_pc = "ready"
    /\ \E force \in BOOLEAN, check \in BOOLEAN, tpl \in {"", "other.docx"},
          template_exists \in BOOLEAN, config_loads \in BOOLEAN :
          LET a == [ op |-> "fill", force |-> force, check |-> check, template |-> tpl,
                     template_exists |-> template_exists, config_loads |-> config_loads ]
          IN  Exits(a, fill_main(se_state, a, se_config, se_template,
                                 template_exists, config_loads))

\* the next command starts from the snapshot the last one left
NextCommand ==
    /\ se_pc = "exited"
    /\ se_pc' = "ready"
    /\ se_args' = NoResult
    /\ se_exit' = NoResult
    /\ UNCHANGED <<se_state, se_config, se_template, seOthers>>

Next == Show \/ Delete \/ Update \/ Fill \/ NextCommand

Spec == Init /\ [][Next]_vars

-----------------------------------------------------------------------------
(* Claims about the commands                                               *)

\* the names of the batch an update command carries: the --field name when
\* it comes with a non-empty --value, and the keys of the --json object
BatchNames(a) ==
    (IF a.field.given /\ a.field.s # <<>> /\ a.value.given /\ a.value.s # <<>>
     THEN {a.field.s} ELSE {})
        \cup (IF a.json.kind = "dict" THEN DictKeys(a.json.d) ELSE {})

\* the value the batch gives a name: --json overrides --field/--value
BatchValue(a, name) ==
    IF a.json.kind = "dict" /\ name \in DictKeys(a.json.d)
    THEN DictGet(a.json.d, name)
    ELSE PyStr(a.value.s)

\* the canonical names a raw name stands for: itself when valid, else its
\* only normalized match, else none
CanonicalOf(name, valid_fields) ==
    IF name \in Range(valid_fields) THEN {name}
    ELSE IF Cardinality(NormalizedMatches(name, valid_fields)) = 1
    THEN NormalizedMatches(name, valid_fields)
    ELSE {}

UpdateStep(a, st, before, after, exit_code) ==
    LET valid_fields == get_all_fields(st.groups)
        names == BatchNames(a)
        bad == \E n \in names : CanonicalOf(n, valid_fields) = {}
        committed == UNION {CanonicalOf(n, valid_fields) : n \in names}
    IN  /\ bad => exit_code # 0 /\ after = before
        /\ exit_code # 0 => after = before
        /\ (~bad /\ names # {} /\ a.json.kind # "invalid") =>
              /\ exit_code = 0
              /\ DOMAIN after = DOMAIN before \cup committed
              /\ \A f \in committed :
                    \E n \in names : /\ f \in CanonicalOf(n, valid_fields)
                                     /\ after[f] = BatchValue(a, n)
              /\ \A f \in DOMAIN before \ committed : after[f] = before[f]

\* C1: the update command is all-or-nothing: when a name of the batch cannot
\* be canonicalized the command exits non-zero and leaves the persisted
\* field_values as they were; when every name resolves, every resolved name
\* is in the field_values the command's one write leaves, with the batch's
\* value, and no other field has changed.
C1_UpdateAllOrNothing ==
    [][ (se_pc = "ready" /\ se_pc' = "exited" /\ se_args'.op = "update")
          => UpdateStep(se_args', se_state, se_state.field_values,
                        se_state'.field_values, se_exit'.exit_code) ]_vars

\* a batch with a name that resolves and a name that does not was rejected
C1_Witness ==
    /\ se_pc = "exited" /\ se_args.op = "update"
    /\ \E n \in BatchNames(se_args) :
          CanonicalOf(n, get_all_fields(se_state.groups)) # {}
    /\ \E n \in BatchNames(se_args) :
          CanonicalOf(n, get_all_fields(se_state.groups)) = {}
    /\ se_exit.exit_code = 1
    /\ se_exit.out.kind = "unknown_fields"

FillRan == se_pc = "exited" /\ se_args.op = "fill"

\* the taxonomy and the values the render command works on: the config's
\* groups and the alias-propagated values, or, when the config does not
\* load, the snapshot's groups and values
ActiveTaxonomy ==
    IF se_args.config_loads THEN se_config.PLACEHOLDER_GROUPS ELSE se_state.groups
ActiveValues ==
    IF se_args.config_loads
    THEN apply_aliases(se_state.field_values, se_config.FIELD_ALIASES)
    ELSE se_state.field_values

\* unfilledFields over the taxonomy
UnfilledOverTaxonomy ==
    {f \in Range(get_all_fields(ActiveTaxonomy)) : ~is_field_filled(f, ActiveValues)}

GateRefuses ==
    (~se_args.force /\ ~se_args.check /\ UnfilledOverTaxonomy # {})
        => se_exit.exit_code # 0 /\ ~se_exit.written

OnlyForceWritesIncomplete ==
    (se_exit.written /\ UnfilledOverTaxonomy # {}) => se_args.force

\* C10 as stated: without --force and --check an incomplete snapshot makes
\* the render command exit non-zero and write no document; with --check no
\* document is written and the exit code is non-zero iff a field is
\* unfilled; a document is written over unfilled fields only with --force.
C10_StrictRenderGate ==
    FillRan =>
        /\ GateRefuses
        /\ se_args.check =>
              /\ ~se_exit.written
              /\ se_exit.exit_code # 0 <=> UnfilledOverTaxonomy # {}
        /\ OnlyForceWritesIncomplete

\* C10, amended: as stated, but the --check exit code is non-zero iff a
\* field is unfilled only when the template file is found; when it is not
\* found the command exits non-zero whatever the fields and writes nothing.
C10_StrictRenderGate_TemplateFound ==
    FillRan =>
        /\ GateRefuses
        /\ se_args.check =>
              /\ ~se_exit.written
              /\ se_args.template_exists =>
                    (se_exit.exit_code # 0 <=> UnfilledOverTaxonomy # {})
        /\ ~se_args.template_exists => se_exit.exit_code # 0 /\ ~se_exit.written
        /\ OnlyForceWritesIncomplete

\* the gate refused an incomplete snapshot whose template exists
C10_Witness ==
    /\ FillRan
    /\ se_args.template_exists /\ ~se_args.force /\ ~se_args.check
    /\ UnfilledOverTaxonomy # {}
    /\ se_exit.exit_code = 1 /\ ~se_exit.written

-----------------------------------------------------------------------------
(* SpecFilled: is_field_filled and is_checkbox_checked applied to one      *)
(* field holding each canonical value and each kind of other value         *)

FdFields == {<<BOX, "c">>, <<"a">>}

FdOtherValues ==
    { Absent, PyStr(<<>>), PyStr(<<"SP">>), PyStr(<<"SP", "SP">>),
      PyStr(<<"v">>), PyStr(<<"SP", "v", "SP">>), PyStr(<<"t", "R", "u", "e">>),
      PyStr(<<"2">>) }

FdValues == CHECKBOX_VALID_VALUES \cup FdOtherValues

FdInit ==
    /\ \E f \in FdFields, v \in FdValues :
          /\ tk_groups = <<[name |-> "g1", priority |-> 1, fields |-> <<f>>]>>
          /\ tk_values = DictOf(f :> v)
    /\ tk_out = NoResult
    /\ TkAlone

FdIsFilled ==
    /\ tk_out.op = "none"
    /\ \E f \in Range(get_all_fields(tk_groups)) :
          tk_out' = [ op |-> "is_field_filled", arg |-> f,
                      res |-> is_field_filled(f, tk_values) ]
    /\ UNCHANGED <<tk_groups, tk_values, tkOthers>>

FdIsChecked ==
    /\ tk_out.op = "none"
    /\ \E f \in DOMAIN tk_values :
          tk_out' = [ op |-> "is_checkbox_checked", arg |-> f,
                      res |-> is_checkbox_checked(tk_values[f]) ]
    /\ UNCHANGED <<tk_groups, tk_values, tkOthers>>

FdNext == FdIsFilled \/ FdIsChecked

SpecFilled == FdInit /\ [][FdNext]_vars

-----------------------------------------------------------------------------
(* Claims about is_field_filled                                            *)

\* is_field_filled has been applied to a checkbox field
CheckboxJudged == tk_out.op = "is_field_filled" /\ startswith(tk_out.arg, BOX)

StoredValue == IF tk_out.arg \in DOMAIN tk_values THEN tk_values[tk_out.arg] ELSE Absent

\* C11 as stated: a checkbox is filled by every member of the canonical
\* checked/unchecked sets and by every non-empty string; it is unfilled when
\* absent, when the empty string, and when a boolean.
C11_CheckboxFilled ==
    CheckboxJudged =>
        /\ (StoredValue \in CHECKBOX_VALID_VALUES
               \/ (StoredValue.t = "str" /\ StoredValue.s # <<>>))
              => tk_out.res = TRUE
        /\ (StoredValue = Absent \/ StoredValue = PyStr(<<>>) \/ StoredValue.t = "bool")
              => tk_out.res = FALSE

\* C11, amended: a checkbox is filled by every member of the canonical
\* checked/unchecked sets, the booleans True and False among them, and by
\* every string holding a character that is not whitespace; it is unfilled
\* when absent and when a string of whitespace only (the empty string
\* included).
C11_CheckboxFilled_BooleansCanonical ==
    CheckboxJudged =>
        /\ (StoredValue \in CHECKBOX_VALID_VALUES
               \/ (StoredValue.t = "str"
                     /\ \E i \in 1..Len(StoredValue.s) : StoredValue.s[i] \notin Whitespace))
              => tk_out.res = TRUE
        /\ (StoredValue = Absent
               \/ (StoredValue.t = "str"
                     /\ \A i \in 1..Len(StoredValue.s) : StoredValue.s[i] \in Whitespace))
              => tk_out.res = FALSE
        /\ StoredValue.t = "bool" => tk_out.res = TRUE

\* a checkbox holding the boolean False was judged filled
C11_Witness ==
    /\ CheckboxJudged
    /\ StoredValue = PyBool(FALSE)
    /\ tk_out.res = TRUE

-----------------------------------------------------------------------------
(* SpecProgress: get_progress on taxonomies of one group, small ones and   *)
(* ones of about two thousand fields, with a few fields filled             *)

MaxFields == 2001
MaxSmall == 6
MaxFilled == 6

DigitChars == <<"0", "1", "2", "3", "4", "5", "6", "7", "8", "9">>

RECURSIVE Decimal(_)
Decimal(i) ==
    IF i < 10 THEN <<DigitChars[i + 1]>>
    ELSE Decimal(i \div 10) \o <<DigitChars[(i % 10) + 1]>>

\* the name of the i-th field
PgField(i) == <<"f">> \o Decimal(i)

\* a taxonomy of n fields (none: the empty taxonomy)
PgTaxonomy(n) ==
    IF n = 0 THEN <<>>
    ELSE <<[name |-> "g1", priority |-> 1, fields |-> [i \in 1..n |-> PgField(i)]]>>

PgSizes == (0..MaxSmall) \cup ((MaxFields - 3)..MaxFields)

PgInit ==
    /\ \E n \in PgSizes : \E k \in 0..Min({n, MaxFilled}) :
          /\ tk_groups = PgTaxonomy(n)
          /\ tk_values = [f \in {PgField(i) : i \in 1..k} |-> PyStr(<<"v">>)]
    /\ tk_out = NoResult
    /\ TkAlone

PgProgress ==
    /\ tk_out.op = "none"
    /\ tk_out' = [ op |-> "get_progress", arg |-> None,
                   res |-> get_progress(tk_values, tk_groups) ]
    /\ UNCHANGED <<tk_groups, tk_values, tkOthers>>

PgNext == PgProgress

SpecProgress == PgInit /\ [][PgNext]_vars

\* C12: for every taxonomy and value set, progress.filled <= progress.total,
\* and progress.percentage is 0 exactly when progress.filled is 0.
C12_PercentageZeroIffNoneFilled ==
    tk_out.op = "get_progress" =>
        /\ tk_out.res.filled <= tk_out.res.total
        /\ tk_out.res.percentage = 0 <=> tk_out.res.filled = 0

\* a command has exited on a snapshot whose template holds a placeholder
\* that no group of the taxonomy lists
UngroupedPresent == se_pc = "exited" /\ se_state.ungrouped # <<>>

\* C13: a placeholder that belongs to no group is tracked for total
\* completion: it is counted in progress.total, the update command can give
\* it a value, and while it is unfilled show and update do not announce
\* completion and render without --force does not produce the document.
C13_UngroupedTracked ==
    UngroupedPresent =>
        \A f \in Range(se_state.ungrouped) :
            /\ se_args.op = "show" =>
                  /\ se_exit.out.progress.total = Len(se_state.all_placeholders)
                  /\ se_exit.out.unfilled = <<>> => is_field_filled(f, se_state.field_values)
            /\ (se_args.op = "update" /\ BatchNames(se_args) = {f}) =>
                  /\ se_exit.exit_code = 0
                  /\ f \in DOMAIN se_state.field_values
            /\ (se_args.op = "update" /\ se_exit.exit_code = 0 /\ se_exit.out.unfilled = 0)
                  => is_field_filled(f, se_state.field_values)
            /\ (se_args.op = "fill" /\ ~se_args.force /\ se_exit.written)
                  => is_field_filled(f, se_state.field_values)

-----------------------------------------------------------------------------
(* Claims about the renderer's formatting                                  *)

DefaultStyle == [name |-> FONT_BODY, size |-> SZ_BODY, bold |-> FALSE]

\* what render may do to one paragraph
FormattingKept(before, after) ==
    /\ findall(ParaText(before)) = <<>> => after = before
    /\ ParaText(after) # ParaText(before) =>
          IF before = <<>>
          THEN after = <<[text |-> ParaText(after), font |-> DefaultStyle]>>
          ELSE /\ Len(after) = Len(before)
               /\ after[1].text = ParaText(after)
               /\ \A j \in 1..Len(before) : after[j].font = before[j].font
               /\ \A j \in 2..Len(before) : after[j].text = <<>>
    /\ Len(after) # Len(before) => before = <<>>

\* C14: render preserves formatting: in a paragraph whose text it changes the
\* whole new text is in the first original run, whose font family, size and
\* weight are unchanged, and every other original run has empty text,
\* whether tokens were substituted or cleared; the default style is used
\* only for a paragraph that had no run; a paragraph without a token is
\* unchanged.
C14_FormattingPreserved ==
    Rendered =>
        LET before == AllParagraphs(rd_template)
            after == AllParagraphs(rd_out.res.doc)
        IN  /\ Len(after) = Len(before)
            /\ \A i \in 1..Len(before) : FormattingKept(before[i], after[i])

\* a token split over two runs of different fonts was cleared, and one was
\* substituted: the first run carries the text in its own font
C14_Witness ==
    /\ Rendered
    /\ \E i \in 1..Len(ScannedParagraphs(rd_template)) :
          LET before == ScannedParagraphs(rd_template)[i]
              after == ScannedParagraphs(rd_out.res.doc)[i]
          IN  /\ Len(before) = 2
              /\ before[1].font # before[2].font
              /\ before[1].font # DefaultStyle
              /\ ParaText(after) # ParaText(before)
              /\ after[1].font = before[1].font
              /\ after[2].text = <<>>
              /\ \E n \in Range(findall(ParaText(before))) :
                    ~is_field_filled(n, rd_values)
              /\ \E n \in Range(findall(ParaText(before))) :
                    is_field_filled(n, rd_values)

-----------------------------------------------------------------------------
(* Currency formatter: base_config.py                                      *)
(* A function returns Returned(value) or raises: Raised(exception).        *)

Returned(value) == [raised |-> "", value |-> value]
Raised(exception) == [raised |-> exception, value |-> <<>>]

\* "零壹贰叁肆伍陆柒捌玖"
DIGITS ==
    << "u96F6", "u58F9", "u8D30", "u53C1", "u8086",
       "u4F0D", "u9646", "u67D2", "u634C", "u7396" >>
\* ["", "拾", "佰", "仟"]
UNITS == << <<>>, <<"u62FE">>, <<"u4F70">>, <<"u4EDF">> >>
\* ["", "万", "亿", "兆"]
BIG_UNITS == << <<>>, <<"u4E07">>, <<"u4EBF">>, <<"u5146">> >>

YUAN == "u5143"     \* 元
ZHENG == "u6574"    \* 整
JIAO == "u89D2"     \* 角
FEN == "u5206"      \* 分

\* int(digit) of a decimal digit
DigitValue(c) == (CHOOSE i \in 1..10 : DigitChars[i] = c) - 1

\* q[k] with Python's negative indices
PyIndex(q, k) == IF k < 0 THEN q[Len(q) + k + 1] ELSE q[k + 1]

\* the loop of _int_to_chinese over s = str(n), from its i-th character
RECURSIVE IntLoop(_, _, _, _)
IntLoop(s, i, result, zero_flag) ==
    IF i > Len(s) THEN Returned(result)
    ELSE IF s[i] \notin Digits THEN Raised("ValueError")
    ELSE LET d == DigitValue(s[i])
             pos == Len(s) - i
             section == pos \div 4
             pos_in_section == pos % 4
             tier == pos_in_section = 0 /\ section > 0
             digit == (IF zero_flag THEN <<DIGITS[1]>> ELSE <<>>)
                          \o <<DIGITS[d + 1]>> \o UNITS[pos_in_section + 1]
         IN  IF tier /\ section >= Len(BIG_UNITS) THEN Raised("IndexError")
             ELSE IF d = 0
             THEN IF tier
                  THEN IntLoop(s, i + 1, result \o BIG_UNITS[section + 1], FALSE)
                  ELSE IntLoop(s, i + 1, result, TRUE)
             ELSE IntLoop(s, i + 1,
                          result \o digit \o (IF tier THEN BIG_UNITS[section + 1] ELSE <<>>),
                          FALSE)

\* _int_to_chinese(n), on s = str(n)
_int_to_chinese(s) ==
    IF s = <<"0">> THEN Returned(<<DIGITS[1]>>) ELSE IntLoop(s, 1, <<>>, FALSE)

\* float(s) for text written without exponent and underscores:
\* [kind, neg, int, frac], kind being "invalid", "nan", "inf" or "number"
ParseFloat(s) ==
    LET t == strip(s)
        signed == t # <<>> /\ t[1] \in {"+", "-"}
        u == IF signed THEN Tail(t) ELSE t
        dots == {i \in 1..Len(u) : u[i] = "."}
        dot == IF dots = {} THEN Len(u) + 1 ELSE CHOOSE i \in dots : TRUE
        int == SubSeq(u, 1, dot - 1)
        frac == SubSeq(u, dot + 1, Len(u))
        neg == signed /\ t[1] = "-"
        res(kind) == [kind |-> kind, neg |-> neg, int |-> int, frac |-> frac]
    IN  IF lower(u) \in {<<"i", "n", "f">>, <<"i", "n", "f", "i", "n", "i", "t", "y">>}
        THEN res("inf")
        ELSE IF lower(u) = <<"n", "a", "n">> THEN res("nan")
        ELSE IF /\ Cardinality(dots) <= 1
                /\ Range(int) \cup Range(frac) \subseteq Digits
                /\ int \o frac # <<>>
        THEN res("number")
        ELSE res("invalid")

\* str(int(x)) of a digit string: without leading zeros
RECURSIVE StripZeros(_)
StripZeros(digits) ==
    IF digits = <<>> THEN <<"0">>
    ELSE IF Head(digits) = "0" THEN StripZeros(Tail(digits))
    ELSE digits

\* the subunit phrase for jiao and fen as main computes them
DecimalPhrase(jiao, fen) ==
    IF jiao = 0 /\ fen = 0 THEN <<ZHENG>>
    ELSE IF jiao = 0 THEN <<DIGITS[1], PyIndex(DIGITS, fen), FEN>>
    ELSE IF fen = 0 THEN <<PyIndex(DIGITS, jiao), JIAO>>
    ELSE <<PyIndex(DIGITS, jiao), JIAO, PyIndex(DIGITS, fen), FEN>>

\* the phrase of the amount (-1)^neg * int.frac * 10^shift; amounts have at
\* most two fractional digits after the shift, so round(amount, 2) is exact
AmountPhrase(neg, int, frac, shift) ==
    LET zeros == [i \in 1..shift |-> "0"]
        shifted == int \o SubSeq(frac \o zeros, 1, shift)
        rest == SubSeq(frac, shift + 1, Len(frac))
        cents == SubSeq(rest \o <<"0", "0">>, 1, 2)
        c == 10 * DigitValue(cents[1]) + DigitValue(cents[2])
        \* int(amount): truncation towards zero
        int_part == IF neg /\ StripZeros(shifted) # <<"0">>
                    THEN <<"-">> \o StripZeros(shifted)
                    ELSE StripZeros(shifted)
        \* dec_part = round((amount - int_part) * 100) is -c for a negative
        \* amount: int(dec_part / 10) truncates, dec_part % 10 is not negative
        jiao == IF neg THEN 0 - (c \div 10) ELSE c \div 10
        fen == IF neg THEN (10 - (c % 10)) % 10 ELSE c % 10
        words == _int_to_chinese(int_part)
    IN  IF words.raised # "" THEN words
        ELSE Returned(words.value \o <<YUAN>> \o DecimalPhrase(jiao, fen))

\* the cleaned input: stripped, without separators, 元 and 整
CleanAmount(amount_str) ==
    RemoveChars(RemoveChars(strip(amount_str), {",", "uFF0C"}), {YUAN, ZHENG})

AmountOf(body, shift) ==
    LET p == ParseFloat(body)
    IN  IF p.kind = "invalid" THEN Returned(body)
        ELSE IF p.kind = "nan" THEN Raised("ValueError")
        ELSE IF p.kind = "inf" THEN Raised("OverflowError")
        ELSE AmountPhrase(p.neg, p.int, p.frac, shift)

amount_to_chinese(amount_str) ==
    LET cleaned == CleanAmount(amount_str)
        last == IF cleaned = <<>> THEN "" ELSE cleaned[Len(cleaned)]
    IN  IF last = "u4E07" THEN AmountOf(SubSeq(cleaned, 1, Len(cleaned) - 1), 4)
        ELSE IF last = "u4EBF" THEN AmountOf(SubSeq(cleaned, 1, Len(cleaned) - 1), 8)
        ELSE AmountOf(cleaned, 0)

-----------------------------------------------------------------------------
(* SpecAmount: amount_to_chinese on a bounded universe of amount texts     *)

MaxDigits == 9

AmDigits == {"0", "1", "5"}

\* digit strings of 1..MaxDigits digits
AmIntegers == UNION {[1..n -> AmDigits] : n \in 1..MaxDigits}

AmShort == { <<"0">>, <<"5">>, <<"1", "0">>, <<"1", "5">>, <<"0", "0", "1", "1">>,
             <<"1", "0", "0", "1">>, <<>> }
AmSigns == { <<>>, <<"-">>, <<"+">> }
AmFractions == { <<>>, <<".">>, <<".", "5">>, <<".", "0", "5">>, <<".", "5", "0">>,
                 <<".", "1", "5">> }
AmSuffixes == { <<>>, <<"u4E07">>, <<"u4EBF">>, <<YUAN>>, <<YUAN, ZHENG>> }

\* signed amounts with subunits and magnitude suffixes
AmDecorated ==
    { sg \o i \o f \o sf : sg \in AmSigns, i \in AmShort,
                           f \in AmFractions, sf \in AmSuffixes }

AmSpecial ==
    { <<"a", "b", "c">>, <<"n", "a", "n">>, <<"N", "a", "N">>, <<"i", "n", "f">>,
      <<"-", "i", "n", "f">>, <<"I", "n", "f", "i", "n", "i", "t", "y">>,
      <<"1", ",", "0", "0", "0">>, <<"1", "uFF0C", "0", "0", "0">>,
      <<"SP", "5", "SP", YUAN>>, <<"1", "SP", "0">>, <<"SP">>,
      <<"1">> \o [i \in 1..16 |-> "0"], <<"1">> \o [i \in 1..12 |-> "0"] }

AmInputs == AmIntegers \cup AmDecorated \cup AmSpecial

AmInit ==
    /\ am_input \in AmInputs
    /\ am_out = NoResult
    /\ AmAlone

AmountToChinese ==
    /\ am_out.op = "none"
    /\ am_out' = [ op |-> "amount_to_chinese", arg |-> am_input,
                   res |-> amount_to_chinese(am_input) ]
    /\ UNCHANGED <<am_input, amOthers>>

AmNext == AmountToChinese

SpecAmount == AmInit /\ [][AmNext]_vars

-----------------------------------------------------------------------------
(* Claims on the currency formatter                                        *)

AmountRan == am_out.op = "amount_to_chinese"

\* the text amount_to_chinese hands to float(): the cleaned input without
\* its magnitude suffix
AmountText(amount_str) ==
    LET cleaned == CleanAmount(amount_str)
    IN  IF cleaned # <<>> /\ cleaned[Len(cleaned)] \in {"u4E07", "u4EBF"}
        THEN SubSeq(cleaned, 1, Len(cleaned) - 1)
        ELSE cleaned

\* C15: amount_to_chinese never raises: for every input text, the empty
\* text, non-numeric text, negative amounts and the literals nan and inf
\* included, it returns a text, and for an input that does not parse as a
\* number it returns the cleaned input unchanged.
C15_AmountNeverRaises ==
    AmountRan =>
        /\ am_out.res.raised = ""
        /\ ParseFloat(AmountText(am_input)).kind = "invalid"
               => am_out.res.value = AmountText(am_input)

\* the number of occurrences of c in text
CountChar(text, c) == Cardinality({i \in 1..Len(text) : text[i] = c})

\* a digit of the four-digit section k of the digit string is not zero
SectionNonZero(digits, k) ==
    \E i \in 1..Len(digits) : (Len(digits) - i) \div 4 = k /\ digits[i] # "0"

IntegerAmount == am_input # <<>> /\ Range(am_input) \subseteq Digits

\* C17: for a non-negative integer amount the marker of a four-digit
\* section (BIG_UNITS[1] for 10^4..10^7, BIG_UNITS[2] for 10^8..10^11) occurs
\* exactly once in the words when the section has a non-zero digit and not at
\* all when the section is all zeros, and the words end in the currency unit
\* followed by the exact suffix.
C17_TierMarkers ==
    (AmountRan /\ IntegerAmount /\ am_out.res.raised = "") =>
        LET words == am_out.res.value
        IN  /\ \A k \in {1, 2} :
                  CountChar(words, BIG_UNITS[k + 1][1])
                      = IF SectionNonZero(am_input, k) THEN 1 ELSE 0
            /\ Len(words) >= 2
            /\ SubSeq(words, Len(words) - 1, Len(words)) = <<YUAN, ZHENG>>

\* the entries of the snapshot that name the variant and its taxonomy
Taxonomy(st) ==
    [ contract_type |-> st.contract_type,
      contract_name |-> st.contract_name,
      contract_code |-> st.contract_code,
      template_path |-> st.template_path,
      all_placeholders |-> st.all_placeholders,
      groups |-> st.groups,
      ungrouped |-> st.ungrouped ]

\* a command ran from the snapshot before to the snapshot after
CommandStep == se_pc = "ready" /\ se_pc' = "exited"

\* after is before without the named keys, every other value unchanged
DeletedExactly(before, after, names) ==
    /\ DOMAIN after = DOMAIN before \ Range(names)
    /\ \A f \in DOMAIN after : after[f] = before[f]

\* C16: the variant and the taxonomy of a session are fixed after init:
\* across every sequence of update, delete, show, check and render commands
\* contract_type, contract_name, contract_code, template_path,
\* all_placeholders, groups and ungrouped stay what init_state wrote; update
\* and delete change field_values only, delete removing exactly the named
\* keys that are present; show, check and render leave the snapshot as it is.
C16_TaxonomyFixed ==
    [][ CommandStep =>
          /\ Taxonomy(se_state')
                 = Taxonomy(init_state("tigong", se_config, se_template["template.docx"]))
          /\ [se_state' EXCEPT !.field_values = se_state.field_values] = se_state
          /\ se_args'.op \in {"show", "fill"} => se_state' = se_state
          /\ se_args'.op = "delete" =>
                 DeletedExactly(se_state.field_values, se_state'.field_values,
                                se_args'.delete)
      ]_vars

\* a delete removed a stored value and left another one in place
C16_Witness ==
    /\ se_pc = "exited"
    /\ se_args.op = "delete"
    /\ se_exit.out.deleted # <<>>
    /\ DOMAIN se_state.field_values # {}

\* C18: after every sequence of update and delete commands, accepted or
\* rejected, from the empty field_values init_state writes, every key of
\* field_values is a canonical field name declared in one of the snapshot's
\* groups: no raw, misspelled or unknown name is stored as a key.
C18_KeysCanonical ==
    DOMAIN se_state.field_values \subseteq Range(get_all_fields(se_state.groups))

\* an update typed a_b as "a b"; its value is stored under a_b
C18_Witness ==
    /\ se_pc = "exited"
    /\ se_args.op = "update"
    /\ se_args.json.kind = "dict"
    /\ <<"a", "SP", "b">> \in DictKeys(se_args.json.d)
    /\ se_exit.exit_code = 0
    /\ SeTextAB \in DOMAIN se_state.field_values
    /\ <<"a", "SP", "b">> \notin DOMAIN se_state.field_values

\* the render command ran without --force and --check on the template the
\* snapshot names, and found it
RenderRan ==
    /\ FillRan
    /\ ~se_args.force /\ ~se_args.check
    /\ se_args.template = "" /\ se_args.template_exists

\* the verdict of update and show on the snapshot: unfilledFields over the
\* snapshot's groups is empty
ReportedComplete ==
    get_unfilled_fields(se_state.field_values, se_state.groups, None) = <<>>

\* C19: the completion verdicts of update and render agree: whenever update
\* or show reports that all fields are filled, the render command run on the
\* same snapshot without --force passes its gate, writes the document and
\* exits 0; and whenever render without --force exits 0 the renderer's list
\* of unresolved placeholders is empty.
C19_VerdictsAgree ==
    RenderRan =>
        /\ ReportedComplete => se_exit.exit_code = 0 /\ se_exit.written
        /\ se_exit.exit_code = 0 => se_exit.out.unfilled = <<>>

-----------------------------------------------------------------------------
(* SpecCollect: the collection loop.  From a snapshot, a caller takes the  *)
(* next group and commits, with one update command, a filled value for     *)
(* each of the group's unfilled fields, until no group is left.            *)

CoGroupNames == <<"g1", "g2", "g3">>

CoTextValues == {Absent, PyStr(<<>>), PyStr(<<"v">>)}
CoBoxValues == {Absent, PyBool(FALSE), PyStr(<<>>)}

\* the groups that list a field: none, one or two of them
CoMemberships == {m \in SUBSET (1..Len(CoGroupNames)) : Cardinality(m) <= 2}

\* the groups of a snapshot: field f is listed by the groups of member[f];
\* init_state declares no group without a field
CoTaxonomy(member, prio) ==
    LET group(i) ==
            [ name |-> CoGroupNames[i], priority |-> prio[i],
              fields |-> SelectSeq(TkFieldPool, LAMBDA f : i \in member[f]) ]
        nonempty(g) == g.fields # <<>>
    IN  SelectSeq([i \in 1..Len(CoGroupNames) |-> group(i)], nonempty)

\* a snapshot as init_state writes it, with the values a session left
CoSnapshot(groups, field_values) ==
    [ contract_type |-> "tigong",
      contract_name |-> "name",
      contract_code |-> "code",
      template_path |-> "template.docx",
      total_placeholders |-> Len(TkFieldPool),
      checkbox_count |-> 1,
      text_count |-> 2,
      all_placeholders |-> TkFieldPool,
      groups |-> groups,
      ungrouped |-> SelectSeq(TkFieldPool, LAMBDA f : f \notin Range(get_all_fields(groups))),
      field_values |-> field_values ]

\* the values of the universe that fill field f
CoFilledValues(f) ==
    {v \in TkValuesOf(f) \ {Absent} : is_field_filled(f, DictOf(f :> v))}

CoInit ==
    /\ \E member \in [Range(TkFieldPool) -> CoMemberships],
          prio \in [1..Len(CoGroupNames) -> 1..MaxPriority],
          a \in CoTextValues, b \in {Absent, PyStr(<<"v">>)}, c \in CoBoxValues :
          se_state = CoSnapshot(CoTaxonomy(member, prio),
                                DictOf((TkTextA :> a) @@ (TkTextB :> b) @@ (TkBoxC :> c)))
    /\ se_config = NoResult
    /\ se_template = NoResult
    /\ se_pc = "ready"
    /\ se_args = [op |-> "collect", round |-> 0, group |-> None]
    /\ se_exit = NoResult
    /\ SeAlone

\* one round: update_state.py --json {field: value, ...} for the unfilled
\* fields of the next group
CoRound ==
    /\ se_pc = "ready"
    /\ get_next_unfilled_group(se_state.field_values, se_state.groups) # None
    /\ \E text \in CoFilledValues(TkTextA), box \in CoFilledValues(TkBoxC) :
          LET next_group == get_next_unfilled_group(se_state.field_values, se_state.groups)
              asked == get_unfilled_fields(se_state.field_values, se_state.groups, next_group)
              answer(f) == IF startswith(f, BOX) THEN box ELSE text
              a == [ op |-> "update", field |-> NotGiven, value |-> NotGiven,
                     json |-> [ kind |-> "dict",
                                d |-> [i \in 1..Len(asked) |->
                                          [key |-> asked[i], value |-> answer(asked[i])]] ],
                     round |-> se_args.round + 1, group |-> next_group ]
          IN  Exits(a, update_main(se_state, a))

\* the caller reads the report and goes on
CoContinue ==
    /\ se_pc = "exited"
    /\ se_pc' = "ready"
    /\ se_exit' = NoResult
    /\ UNCHANGED <<se_state, se_args, se_config, se_template, seOthers>>

CoNext == CoRound \/ CoContinue

SpecCollect == CoInit /\ [][CoNext]_vars

\* the groups of the snapshot with an unfilled field
IncompleteGroups(st) ==
    {g.name : g \in {h \in Range(st.groups) :
                        get_unfilled_fields(st.field_values, st.groups, h.name) # <<>>}}

\* no group is left to ask and no field is unfilled
CollectionDone(st) ==
    /\ get_next_unfilled_group(st.field_values, st.groups) = None
    /\ get_unfilled_fields(st.field_values, st.groups, None) = <<>>

\* C20: the collection loop terminates: a caller that repeatedly takes the
\* group get_next_unfilled_group returns and commits a filled value for each
\* of its unfilled fields reaches, after at most as many rounds as there are
\* groups, a snapshot where get_next_unfilled_group is None and
\* get_unfilled_fields is empty; each round strictly decreases the number of
\* groups with an unfilled field and makes no complete group incomplete.
C20_CollectionTerminates ==
    /\ [](se_args.round <= Len(se_state.groups))
    /\ []((se_pc = "ready" /\ se_args.round >= Len(se_state.groups))
              => CollectionDone(se_state))
    /\ []((se_pc = "ready"
              /\ get_next_unfilled_group(se_state.field_values, se_state.groups) = None)
              => CollectionDone(se_state))
    /\ [][ CommandStep =>
             /\ se_exit'.exit_code = 0
             /\ IncompleteGroups(se_state') \subseteq IncompleteGroups(se_state)
             /\ Cardinality(IncompleteGroups(se_state'))
                    < Cardinality(IncompleteGroups(se_state))
         ]_vars

\* three groups were asked one after the other, and nothing is left
C20_Witness ==
    /\ se_pc = "exited"
    /\ se_args.op = "update"
    /\ se_args.round = 3
    /\ Len(se_state.groups) = 3
    /\ CollectionDone(se_state)
====
